---- MODULE Spec2Model ----
(***************************************************************************)
(* Freight-rates quote pipeline: the candidate validator                   *)
(* (backend/src/validation/validator.js), the Maersk scraper run           *)
(* (backend/src/scraper/maersk.js), the scrape job of POST /scrape         *)
(* (backend/src/routes/pricing.js), the rate limiter of the server entry   *)
(* point and the database layer (backend/src/db/database.js) as state      *)
(* machines.                                                               *)
(*                                                                         *)
(* Conventions.  An optional JavaScript value is a set: None for an        *)
(* undefined/null/NaN value, Some(v) otherwise.  Confidence scores and     *)
(* confidence thresholds are in hundredths (0.8 is 80), prices are whole   *)
(* currency units and times are clock ticks.                               *)
(***************************************************************************)
EXTENDS Integers, Sequences, FiniteSets, TLC

VARIABLES
    \* ---- validator: one candidate validated repeatedly
    candidate,      \* the candidate handed to validateCandidate
    opts,           \* the validation options of the call(s)
    now,            \* the wall clock read by "new Date()"
    results,        \* the successive calls on (candidate, opts): clock reading and ValidationResult
    \* ---- validator: a list validated and sorted
    candidates,     \* the input array of validateCandidates
    validated,      \* None before the call, Some(returned array) after it
    \* ---- scraper: one run of scrapeMaerskSpotRate
    pc,             \* position of the run in the function body
    page,           \* None before navigation, Some(page reached by the navigation)
    context,        \* "none" | "open" | "destroyed" | "closed": the persistent browser context
    currentUrl,     \* the local currentUrl
    bookingFormVisible, \* the local bookingFormVisible
    snapshotId,     \* the local snapshotId (None = null)
    savedSnapshots, \* ids of the snapshots written by saveSnapshot in this run
    oauthGrantFailed,   \* flag set by the response listener
    consentAttempt, \* consent attempts made by the consent-retry loop
    recovered,      \* the local recovered of the consent-retry loop
    waitResult,     \* the local waitResult (None before the results wait)
    trail,          \* the kinds of interaction the run has had with the page
    outcome,        \* None while running, Some(returned object) at the end
    \* ---- the results wait taken alone
    watchers,       \* None, or Some(time at which each watched element becomes visible)
    \* ---- scrape job: one POST /scrape request and its background job
    jpc,            \* position in the route handler and the background job
    request,        \* the request body
    response,       \* None, or Some(status of the HTTP response)
    jobStatus,      \* None if no scrape_jobs row exists, else Some(its status)
    statusLog,      \* the successive values written to the status column
    failureRecords, \* reason codes of the failure_records rows of the job
    scrapeResult,   \* the local scrapeResult
    pricingRows,    \* rows the job inserted into pricing
    pricingInserted,    \* the validated candidates those rows were made from
    dbFailed,       \* the database statements of the job that threw
    \* ---- rate limiter middleware
    requestCounts,  \* the Map requestCounts: for each IP the array of kept timestamps
    dateNow,        \* the clock read by Date.now()
    served,         \* requests the middleware has handled
    passed,         \* for each IP the times of its requests handed to next()
    rateResponse,   \* None, or Some(IP and answer of the last request handled)
    \* ---- database layer
    ready,          \* the module variable _ready: None, or Some(promise of initDb run k)
    db,             \* the module variable _db: None, or Some(wrapper made by run k)
    initRuns,       \* the state of each initDb() run started so far
    callers,        \* the initDbAsync() calls: state and settled value of each
    lastGet,        \* None, or Some(result of the last getDb() call)
    memVersion,     \* statements applied to the in-memory database
    diskVersion,    \* the in-memory version the database file holds
    runReport,      \* None, or Some(what the last exec/run call reported to its caller)
    \* ---- the extractor taken alone
    resultsPage,    \* None, or Some(the results page handed to extractPricingCandidates)
    extracted,      \* None before the call, Some(returned array) after it
    \* ---- request parameters on their way to the booking form
    params,         \* the request body: container_type, weight_per_container, weight_unit
    ppc,            \* position: "request" | "stored" | "filled" | "rejected" | "idle"
    storedType,     \* None, or Some(container type code stored on the job row)
    optionLabel,    \* None, or Some(option label the scraper looks for on the form)
    formContainer,  \* None, or Some(option label the scraper selected on the form)
    formWeight,     \* None, or Some(weight the scraper entered on the form, in 1/100 kg)
    \* ---- the historical median of a lane
    lanePricing,    \* the pricing rows of the job's lane, oldest first
    histOpts,       \* None, or Some(the options the job passes to validateCandidates)
    \* ---- POST /accept
    apc,            \* position: "request" | "done" | "idle"
    acceptBody,     \* the request body: job_id, candidate_index, actor
    storedJob,      \* None, or Some(result_json of the one scrape job in the database)
    acceptResponse, \* None, or Some(status of the response)
    acceptPricing,  \* the pricing rows inserted by the request
    acceptHistory,  \* the pricing_history rows inserted by the request
    \* ---- the status poll of the scrape form
    fpc,            \* position: "form" | "trigger" | "polling" | "timer" | "stopped" | "idle"
    pollCount,      \* the local pollCount of handleSubmit
    polls,          \* number of getScrapeJob calls made
    polling,        \* the component state polling
    formError,      \* the component state error
    onResultCalls,  \* number of calls of the onResult prop
    lastJobStatus   \* None, or Some(what the last getScrapeJob call settled with)

validatorVars == <<candidate, opts, now, results>>
listVars      == <<candidates, validated>>
scraperVars   == <<pc, page, context, currentUrl, bookingFormVisible, snapshotId, savedSnapshots,
                   oauthGrantFailed, consentAttempt, recovered, waitResult, trail, outcome>>
raceVars      == <<watchers>>
jobVars       == <<jpc, request, response, jobStatus, statusLog, failureRecords, scrapeResult,
                   pricingRows, pricingInserted, dbFailed>>
rateVars      == <<requestCounts, dateNow, served, passed, rateResponse>>
dbVars        == <<ready, db, initRuns, callers, lastGet, memVersion, diskVersion, runReport>>
extractVars   == <<resultsPage, extracted>>
paramVars     == <<params, ppc, storedType, optionLabel, formContainer, formWeight>>
histVars      == <<lanePricing, histOpts>>
acceptVars    == <<apc, acceptBody, storedJob, acceptResponse, acceptPricing, acceptHistory>>
pollVars      == <<fpc, pollCount, polls, polling, formError, onResultCalls, lastJobStatus>>
vars          == <<candidate, opts, now, results, candidates, validated,
                   pc, page, context, currentUrl, bookingFormVisible, snapshotId, savedSnapshots,
                   oauthGrantFailed, consentAttempt, recovered, waitResult, trail, outcome,
                   watchers,
                   jpc, request, response, jobStatus, statusLog, failureRecords, scrapeResult,
                   pricingRows, pricingInserted, dbFailed,
                   requestCounts, dateNow, served, passed, rateResponse,
                   ready, db, initRuns, callers, lastGet, memVersion, diskVersion, runReport,
                   resultsPage, extracted,
                   params, ppc, storedType, optionLabel, formContainer, formWeight,
                   lanePricing, histOpts,
                   apc, acceptBody, storedJob, acceptResponse, acceptPricing, acceptHistory,
                   fpc, pollCount, polls, polling, formError, onResultCalls, lastJobStatus>>

----------------------------------------------------------------------------
(* Optional values and JavaScript truthiness                               *)

None == {}
Some(v) == {v}
Val(x) == CHOOSE v \in x : TRUE

\* truthiness of an optional number: undefined, null, NaN and 0 are falsy
Truthy(x) == x # None /\ x # Some(0)

\* the "x || d" idiom on an optional number
OrDefault(x, d) == IF Truthy(x) THEN Val(x) ELSE d

Abs(n) == IF n < 0 THEN -n ELSE n

----------------------------------------------------------------------------
(* Bounds of the checked instances                                         *)

MaxNow  == 2    \* the clock runs from 0 to MaxNow
MaxCalls == 2   \* validateCandidate is called at most this often on one candidate
MaxList == 3    \* longest array handed to validateCandidates

----------------------------------------------------------------------------
(* validator.js                                                            *)

VALID_CURRENCIES ==
    { "USD", "EUR", "GBP", "CNY", "JPY", "KRW", "SGD", "AED",
      "INR", "TRY", "NGN", "ZAR", "BRL", "CAD", "AUD" }

DEFAULT_DEVIATION_PCT == 30
DEFAULT_BASELINE_SAMPLES == 5
DEFAULT_AUTO_ACCEPT == 80
DEFAULT_FLAG_REVIEW == 50
DEFAULT_MIN_TRANSIT == 1
DEFAULT_MAX_TRANSIT == 90

\* String.prototype.toUpperCase on the currency strings of the model
ToUpperCase(s) ==
    CASE s = "usd" -> "USD"
      [] s = "Eur" -> "EUR"
      [] s = "xyz" -> "XYZ"
      [] OTHER     -> s

\* new Date(valid_until): the time of an ISO string, None (Invalid Date) otherwise
ParseDate(v) == IF v.iso THEN Some(v.t) ELSE None

\* variant: the threshold itself already counts as a deviation
DeviationAtLeast(price, median, pct) ==
    median > 0 /\ Abs(price - median) * 100 >= pct * median

\* Math.abs(price - median) / median * 100 > pct, price and median numbers
DeviationAbove(price, median, pct) ==
    IF median > 0 THEN Abs(price - median) * 100 > pct * median
    ELSE IF median < 0 THEN Abs(price - median) * 100 < pct * median
    ELSE FALSE

PriceIssue(c) ==
    IF ~Truthy(c.price) \/ Val(c.price) <= 0
    THEN <<"PRICE_ZERO_OR_NEGATIVE">> ELSE <<>>

CurrencyIssue(c) ==
    IF c.currency = None \/ c.currency = Some("")
       \/ ToUpperCase(Val(c.currency)) \notin VALID_CURRENCIES
    THEN <<"CURRENCY_INVALID">> ELSE <<>>

\* variant: an expiry equal to the clock reading still counts as in the future
ValidUntilIssueStrict(c, t) ==
    IF c.valid_until # None
       /\ ParseDate(Val(c.valid_until)) # None
       /\ Val(ParseDate(Val(c.valid_until))) < t
    THEN <<"VALID_UNTIL_PAST">> ELSE <<>>

ValidUntilIssue(c, t) ==
    IF c.valid_until # None
       /\ ParseDate(Val(c.valid_until)) # None
       /\ Val(ParseDate(Val(c.valid_until))) <= t
    THEN <<"VALID_UNTIL_PAST">> ELSE <<>>

\* variant: the upper bound of the transit window is exclusive
TransitIssueExclusiveMax(c, o) ==
    IF c.transit_days # None
       /\ (Val(c.transit_days) < OrDefault(o.min_transit_days, DEFAULT_MIN_TRANSIT)
           \/ Val(c.transit_days) >= OrDefault(o.max_transit_days, DEFAULT_MAX_TRANSIT))
    THEN <<"TRANSIT_DAYS_OUT_OF_RANGE">> ELSE <<>>

TransitIssue(c, o) ==
    IF c.transit_days # None
       /\ (Val(c.transit_days) < OrDefault(o.min_transit_days, DEFAULT_MIN_TRANSIT)
           \/ Val(c.transit_days) > OrDefault(o.max_transit_days, DEFAULT_MAX_TRANSIT))
    THEN <<"TRANSIT_DAYS_OUT_OF_RANGE">> ELSE <<>>

DeviationIssue(c, o) ==
    IF Truthy(o.historical_median)
       /\ OrDefault(o.baseline_samples, 0) >= OrDefault(o.min_baseline, DEFAULT_BASELINE_SAMPLES)
       /\ c.price # None
       /\ DeviationAbove(Val(c.price), Val(o.historical_median),
                         OrDefault(o.deviation_pct, DEFAULT_DEVIATION_PCT))
    THEN <<"DEVIATION_EXCEEDED">> ELSE <<>>

\* variant: a candidate with issues is rejected whatever its confidence
OutcomeRejectOnIssue(issues, confidence, o) ==
    IF Len(issues) > 0 THEN "REJECT"
    ELSE IF confidence >= OrDefault(o.auto_accept_threshold, DEFAULT_AUTO_ACCEPT) THEN "AUTO_ACCEPT"
    ELSE IF confidence >= DEFAULT_FLAG_REVIEW THEN "FLAG_REVIEW"
    ELSE "REJECT"

Outcome(issues, confidence, o) ==
    IF Len(issues) > 0
    THEN (IF confidence < DEFAULT_FLAG_REVIEW THEN "REJECT" ELSE "FLAG_REVIEW")
    ELSE IF confidence >= OrDefault(o.auto_accept_threshold, DEFAULT_AUTO_ACCEPT) THEN "AUTO_ACCEPT"
    ELSE IF confidence >= DEFAULT_FLAG_REVIEW THEN "FLAG_REVIEW"
    ELSE "REJECT"

\* validateCandidate(candidate, opts), called when the clock reads t
validateCandidate(c, o, t) ==
    LET issues == PriceIssue(c) \o CurrencyIssue(c) \o ValidUntilIssue(c, t)
                  \o TransitIssue(c, o) \o DeviationIssue(c, o)
        confidence == OrDefault(c.confidence_score, 0)
    IN  [ valid      |-> Len(issues) = 0,
          issues     |-> issues,
          outcome    |-> Outcome(issues, confidence, o),
          confidence |-> confidence ]

\* the comparator's table and its "order[x] || 9" lookup
order == [ AUTO_ACCEPT |-> 0, FLAG_REVIEW |-> 1, REJECT |-> 2 ]

OrderKey(o) == IF order[o] = 0 THEN 9 ELSE order[o]

\* Array.prototype.sort with the comparator key(a) - key(b): a stable sort
RECURSIVE InsertByKey(_, _)
InsertByKey(x, s) ==
    IF s = <<>> THEN <<x>>
    ELSE IF OrderKey(x.validation.outcome) < OrderKey(s[Len(s)].validation.outcome)
         THEN Append(InsertByKey(x, SubSeq(s, 1, Len(s) - 1)), s[Len(s)])
         ELSE Append(s, x)

RECURSIVE SortByOutcome(_)
SortByOutcome(s) ==
    IF s = <<>> THEN <<>>
    ELSE InsertByKey(s[Len(s)], SortByOutcome(SubSeq(s, 1, Len(s) - 1)))

\* validateCandidates(candidates, opts), called when the clock reads t
validateCandidates(cs, o, t) ==
    SortByOutcome([ i \in 1..Len(cs) |->
        [ validation |-> validateCandidate(cs[i], o, t) ] @@ cs[i] ])

----------------------------------------------------------------------------
(* Inputs of the validator instances                                       *)

Prices      == { None, Some(0), Some(-100), Some(650), Some(700),
                 Some(1250), Some(1300), Some(1350) }
Currencies  == { None, Some("USD"), Some("usd"), Some("XYZ") }
ValidUntils == { None, Some([iso |-> FALSE, t |-> 0]), Some([iso |-> TRUE, t |-> 1]) }
Transits    == { None, Some(0), Some(1), Some(90), Some(91) }
Confidences == { None, Some(49), Some(50), Some(79), Some(80) }

Candidates ==
    [ price : Prices, currency : Currencies, valid_until : ValidUntils,
      transit_days : Transits, confidence_score : Confidences ]

NoOpts ==
    [ historical_median |-> None, baseline_samples |-> None, deviation_pct |-> None,
      min_transit_days |-> None, max_transit_days |-> None, min_baseline |-> None,
      auto_accept_threshold |-> None ]

WithMedian(samples) ==
    [ NoOpts EXCEPT !.historical_median = Some(1000), !.baseline_samples = samples ]

OptsSet ==
    { NoOpts,
      WithMedian(None), WithMedian(Some(4)), WithMedian(Some(5)), WithMedian(Some(10)),
      [ WithMedian(Some(10)) EXCEPT !.deviation_pct = Some(35) ],
      [ WithMedian(Some(10)) EXCEPT !.deviation_pct = Some(0) ],
      [ WithMedian(Some(4)) EXCEPT !.min_baseline = Some(3) ],
      [ WithMedian(Some(5)) EXCEPT !.min_baseline = Some(10) ],
      [ WithMedian(Some(4)) EXCEPT !.min_baseline = Some(0) ],
      [ NoOpts EXCEPT !.min_transit_days = Some(5) ],
      [ NoOpts EXCEPT !.min_transit_days = Some(0) ],
      [ NoOpts EXCEPT !.max_transit_days = Some(30) ],
      [ NoOpts EXCEPT !.auto_accept_threshold = Some(50) ],
      [ NoOpts EXCEPT !.auto_accept_threshold = Some(90) ],
      [ NoOpts EXCEPT !.auto_accept_threshold = Some(0) ] }

\* the candidates the list instances are built from: one per outcome and kind
ListCandidate(price, currency, confidence) ==
    [ price |-> Some(price), currency |-> Some(currency), valid_until |-> None,
      transit_days |-> Some(12), confidence_score |-> Some(confidence) ]

ListCandidates ==
    { ListCandidate(1000, "USD", 85),     \* AUTO_ACCEPT under the defaults
      ListCandidate(1100, "USD", 60),     \* FLAG_REVIEW, no issue
      ListCandidate(900,  "XYZ", 85),     \* FLAG_REVIEW, one issue
      ListCandidate(800,  "USD", 30) }    \* REJECT

RECURSIVE SeqsUpTo(_, _)
SeqsUpTo(S, n) ==
    IF n = 0 THEN { <<>> }
    ELSE LET shorter == SeqsUpTo(S, n - 1)
         IN  shorter \cup { Append(s, x) : s \in shorter, x \in S }

ListOpts == { NoOpts, [ NoOpts EXCEPT !.auto_accept_threshold = Some(90) ] }

----------------------------------------------------------------------------
(* Idle values of each component, for the specifications that do not run it *)

ValidatorIdle ==
    /\ candidate = ListCandidate(1000, "USD", 85)
    /\ opts = NoOpts
    /\ now = 0
    /\ results = <<>>

ListIdle ==
    /\ candidates = <<>>
    /\ validated = None

ScraperIdle ==
    /\ pc = "idle"
    /\ page = None
    /\ context = "none"
    /\ currentUrl = ""
    /\ bookingFormVisible = FALSE
    /\ snapshotId = None
    /\ savedSnapshots = {}
    /\ oauthGrantFailed = FALSE
    /\ consentAttempt = 0
    /\ recovered = FALSE
    /\ waitResult = None
    /\ trail = {}
    /\ outcome = None

RaceIdle == watchers = None

JobIdle ==
    /\ jpc = "idle"
    /\ request = [ from_port |-> Some("INNSA"), to_port |-> Some("INNSA"),
                   container_type |-> None ]
    /\ response = None
    /\ jobStatus = None
    /\ statusLog = <<>>
    /\ failureRecords = {}
    /\ scrapeResult = None
    /\ pricingRows = 0
    /\ pricingInserted = <<>>
    /\ dbFailed = {}

RateIdle ==
    /\ requestCounts = [ ip \in { "10.0.0.1", "10.0.0.2" } |-> <<>> ]
    /\ dateNow = 0
    /\ served = 0
    /\ passed = [ ip \in { "10.0.0.1", "10.0.0.2" } |-> <<>> ]
    /\ rateResponse = None

DbIdle ==
    /\ ready = None
    /\ db = None
    /\ initRuns = <<>>
    /\ callers = <<>>
    /\ lastGet = None
    /\ memVersion = 0
    /\ diskVersion = 0
    /\ runReport = None

ExtractIdle ==
    /\ resultsPage = None
    /\ extracted = None

ParamsIdle ==
    /\ params = [ container_type |-> None, weight_per_container |-> None, weight_unit |-> None ]
    /\ ppc = "idle"
    /\ storedType = None
    /\ optionLabel = None
    /\ formContainer = None
    /\ formWeight = None

HistIdle ==
    /\ lanePricing = <<>>
    /\ histOpts = None

AcceptIdle ==
    /\ apc = "idle"
    /\ acceptBody = [ job_id |-> None, candidate_index |-> None, actor |-> None ]
    /\ storedJob = None
    /\ acceptResponse = None
    /\ acceptPricing = <<>>
    /\ acceptHistory = <<>>

PollIdle ==
    /\ fpc = "idle"
    /\ pollCount = 0
    /\ polls = 0
    /\ polling = FALSE
    /\ formError = None
    /\ onResultCalls = 0
    /\ lastJobStatus = None

----------------------------------------------------------------------------
(* SpecValidate: validateCandidate called repeatedly while the clock runs  *)

ValidateInit ==
    /\ candidate \in Candidates
    /\ opts \in OptsSet
    /\ now = 0
    /\ results = <<>>
    /\ ListIdle
    /\ ScraperIdle
    /\ RaceIdle
    /\ JobIdle
    /\ RateIdle
    /\ DbIdle
    /\ ExtractIdle
    /\ ParamsIdle
    /\ HistIdle
    /\ AcceptIdle
    /\ PollIdle

\* time passes between two statements
Tick ==
    /\ now < MaxNow
    /\ now' = now + 1
    /\ UNCHANGED <<candidate, opts, results>>
    /\ UNCHANGED listVars
    /\ UNCHANGED scraperVars
    /\ UNCHANGED raceVars
    /\ UNCHANGED rateVars
    /\ UNCHANGED dbVars
    /\ UNCHANGED extractVars
    /\ UNCHANGED paramVars
    /\ UNCHANGED jobVars
    /\ UNCHANGED histVars
    /\ UNCHANGED acceptVars
    /\ UNCHANGED pollVars

\* one call validateCandidate(candidate, opts); its arguments are only read
CallValidateCandidate ==
    /\ Len(results) < MaxCalls
    /\ results' = Append(results, [ at |-> now, result |-> validateCandidate(candidate, opts, now) ])
    /\ UNCHANGED <<candidate, opts, now>>
    /\ UNCHANGED listVars
    /\ UNCHANGED scraperVars
    /\ UNCHANGED raceVars
    /\ UNCHANGED rateVars
    /\ UNCHANGED dbVars
    /\ UNCHANGED extractVars
    /\ UNCHANGED paramVars
    /\ UNCHANGED jobVars
    /\ UNCHANGED histVars
    /\ UNCHANGED acceptVars
    /\ UNCHANGED pollVars

ValidateNext == Tick \/ CallValidateCandidate

SpecValidate == ValidateInit /\ [][ValidateNext]_vars

----------------------------------------------------------------------------
(* SpecList: validateCandidates called once on an array                    *)

ListInit ==
    /\ candidates \in SeqsUpTo(ListCandidates, MaxList)
    /\ opts \in ListOpts
    /\ candidate = ListCandidate(1000, "USD", 85)
    /\ now = 0
    /\ results = <<>>
    /\ validated = None
    /\ ScraperIdle
    /\ RaceIdle
    /\ JobIdle
    /\ RateIdle
    /\ DbIdle
    /\ ExtractIdle
    /\ ParamsIdle
    /\ HistIdle
    /\ AcceptIdle
    /\ PollIdle

\* one call validateCandidates(candidates, opts): map to new objects, then sort
CallValidateCandidates ==
    /\ validated = None
    /\ validated' = Some(validateCandidates(candidates, opts, now))
    /\ UNCHANGED <<candidates, candidate, opts, now, results>>
    /\ UNCHANGED scraperVars
    /\ UNCHANGED raceVars
    /\ UNCHANGED rateVars
    /\ UNCHANGED dbVars
    /\ UNCHANGED extractVars
    /\ UNCHANGED paramVars
    /\ UNCHANGED jobVars
    /\ UNCHANGED histVars
    /\ UNCHANGED acceptVars
    /\ UNCHANGED pollVars

ListNext == CallValidateCandidates

SpecList == ListInit /\ [][ListNext]_vars

----------------------------------------------------------------------------
(* Properties of the validator                                             *)

InSeq(x, s) == \E k \in 1..Len(s) : s[k] = x

\* the priority of the claim: AUTO_ACCEPT < FLAG_REVIEW < REJECT
Priority(o) == CASE o = "AUTO_ACCEPT" -> 0 [] o = "FLAG_REVIEW" -> 1 [] o = "REJECT" -> 2

\* the value of an option that is in effect: the supplied non-zero value, else the default
InEffect(x, d) == IF x = None \/ x = Some(0) THEN d ELSE Val(x)

\* C1: the array returned by validateCandidates is ordered non-decreasingly by
\* outcome priority AUTO_ACCEPT < FLAG_REVIEW < REJECT.
C1_SortedByPriority ==
    validated # None =>
        LET out == Val(validated)
        IN  \A i \in 1..Len(out) : \A j \in 1..Len(out) :
                i < j => Priority(out[i].validation.outcome) <= Priority(out[j].validation.outcome)

\* C2: the outcome is decided by (issue list empty or not, confidence) alone: with an
\* issue REJECT below 0.5 and FLAG_REVIEW otherwise; without issue AUTO_ACCEPT from the
\* auto-accept threshold in effect (default 0.8), else FLAG_REVIEW from 0.5, else
\* REJECT; a missing confidence_score counts as 0.
C2_OutcomeDecision ==
    \A k \in 1..Len(results) :
        LET r    == results[k].result
            conf == IF candidate.confidence_score = None THEN 0 ELSE Val(candidate.confidence_score)
            thr  == InEffect(opts.auto_accept_threshold, 80)
        IN  /\ r.confidence = conf
            /\ r.outcome \in { "AUTO_ACCEPT", "FLAG_REVIEW", "REJECT" }
            /\ (r.issues # <<>> /\ conf < 50)  => r.outcome = "REJECT"
            /\ (r.issues # <<>> /\ conf >= 50) => r.outcome = "FLAG_REVIEW"
            /\ (r.issues = <<>> /\ conf >= thr) => r.outcome = "AUTO_ACCEPT"
            /\ (r.issues = <<>> /\ conf < thr /\ conf >= 50) => r.outcome = "FLAG_REVIEW"
            /\ (r.issues = <<>> /\ conf < thr /\ conf < 50) => r.outcome = "REJECT"

\* C2 witness: each of the five branches has been taken by a call
C2_Witness ==
    /\ Len(results) > 0
    /\ results[1].result.issues # <<>>
    /\ results[1].result.confidence = 50
    /\ results[1].result.outcome = "FLAG_REVIEW"

\* C3: DEVIATION_EXCEEDED is raised exactly when a median is supplied, baseline_samples
\* reaches the minimum baseline in effect (default 5) and |price - median| / median * 100
\* is strictly above the deviation threshold in effect (default 30), above and below
\* the median alike: with median 1000 and 10 samples 1250 and 1300 (and 700) pass,
\* 1350 (and 650) fail; without median or with fewer samples nothing is raised.
C3_DeviationCheck ==
    \A k \in 1..Len(results) :
        LET r       == results[k].result
            raised  == InSeq("DEVIATION_EXCEEDED", r.issues)
            checked == /\ opts.historical_median # None
                       /\ InEffect(opts.baseline_samples, 0) >= InEffect(opts.min_baseline, 5)
            m       == Val(opts.historical_median)
            p       == Val(candidate.price)
            pct     == InEffect(opts.deviation_pct, 30)
        IN  /\ raised <=> ( checked /\ candidate.price # None
                            /\ (IF p >= m THEN p - m ELSE m - p) * 100 > pct * m )
            /\ opts = WithMedian(Some(10)) =>
                 /\ candidate.price \in { Some(1250), Some(1300), Some(700) } => ~raised
                 /\ candidate.price \in { Some(1350), Some(650) } => raised
            /\ opts \in { NoOpts, WithMedian(Some(4)), WithMedian(None) } => ~raised

\* C3 witness: median 1000, 10 samples, price 1350 was validated and flagged
C3_Witness ==
    /\ Len(results) > 0
    /\ opts = WithMedian(Some(10))
    /\ candidate.price = Some(1350)
    /\ InSeq("DEVIATION_EXCEEDED", results[1].result.issues)

\* the parts of C4 that do not depend on how the currency and the expiry are read
C4_Common(r) ==
    /\ InSeq("PRICE_ZERO_OR_NEGATIVE", r.issues)
         <=> (candidate.price = None \/ Val(candidate.price) <= 0)
    /\ InSeq("TRANSIT_DAYS_OUT_OF_RANGE", r.issues)
         <=> ( candidate.transit_days # None
               /\ ( Val(candidate.transit_days) < InEffect(opts.min_transit_days, 1)
                    \/ Val(candidate.transit_days) > InEffect(opts.max_transit_days, 90) ) )
    /\ r.valid <=> (r.issues = <<>>)

C5_AsStated ==
    \A i \in 1..Len(results) : \A j \in 1..Len(results) :
        results[i].result = results[j].result

\* both calls are on the same side of the candidate's expiry
SameSideOfExpiry(t1, t2) ==
    \/ candidate.valid_until = None
    \/ ~Val(candidate.valid_until).iso
    \/ (Val(candidate.valid_until).t <= t1) <=> (Val(candidate.valid_until).t <= t2)

\* C5 amended: two calls on the same candidate and options return identical results
\* unless the candidate's valid_until expires between them (the result depends on the
\* clock through the expiry check only), and no call modifies its arguments.
C5_SameResultSameSide ==
    /\ [](\A i \in 1..Len(results) : \A j \in 1..Len(results) :
            SameSideOfExpiry(results[i].at, results[j].at)
                => results[i].result = results[j].result)
    /\ [][candidate' = candidate /\ opts' = opts]_vars

\* C5 witness: two calls at different clock readings, both after the expiry
C5_Witness ==
    /\ Len(results) = 2
    /\ candidate.valid_until = Some([iso |-> TRUE, t |-> 1])
    /\ results[1].at = 1
    /\ results[2].at = 2
    /\ results[1].result = results[2].result

----------------------------------------------------------------------------
(* scraper/maersk.js: pages and the page-state detectors                   *)

\* page URLs and the searched substrings each contains
Urls ==
    { "https://www.maersk.com/book/",
      "https://www.maersk.com/book/?iss=https://accounts.maersk.com",
      "https://accounts.maersk.com/auth/login",
      "https://www.maersk.com/portaluser/login",
      "https://www.maersk.com/" }

\* the text fragments pages are made of, page titles included
Texts ==
    { "Please complete the reCAPTCHA", "Access Denied", "ACCESS DENIED",
      "Your IP has been blocked", "You don't have permission to access this page",
      "Sign in to your account" }

Titles == { "Book | Maersk", "Access Denied", "Site Blocked", "Are you a human?" }

\* String.prototype.toLowerCase on the strings of the model
ToLowerCase(str) ==
    CASE str = "Please complete the reCAPTCHA" -> "please complete the recaptcha"
      [] str = "Access Denied" -> "access denied"
      [] str = "ACCESS DENIED" -> "access denied"
      [] str = "Your IP has been blocked" -> "your ip has been blocked"
      [] str = "You don't have permission to access this page"
              -> "you don't have permission to access this page"
      [] str = "Sign in to your account" -> "sign in to your account"
      [] str = "Book | Maersk" -> "book | maersk"
      [] str = "Site Blocked" -> "site blocked"
      [] str = "Are you a human?" -> "are you a human?"
      [] str = "https://www.maersk.com/book/?iss=https://accounts.maersk.com"
              -> "https://www.maersk.com/book/?iss=https://accounts.maersk.com"
      [] OTHER -> str

\* the searched phrases that occur in a string, case-sensitively
Occurring(str) ==
    CASE str = "please complete the recaptcha" -> { "captcha", "recaptcha" }
      [] str = "Access Denied" -> { "Access Denied" }
      [] str = "access denied" -> { "access denied" }
      [] str = "your ip has been blocked" -> { "your ip", "blocked" }
      [] str = "you don't have permission to access this page" -> { "you don't have permission" }
      [] str = "Sign in to your account" -> { "Sign in to your account" }
      [] str = "sign in to your account" -> { "sign in to your account" }
      [] str = "site blocked" -> { "blocked" }
      [] str = "are you a human?" -> { "are you a human" }
      [] str = "https://www.maersk.com/book/" -> { "book", "maersk.com/book" }
      [] str = "https://www.maersk.com/book/?iss=https://accounts.maersk.com"
              -> { "book", "maersk.com/book", "accounts", "accounts.maersk.com" }
      [] str = "https://accounts.maersk.com/auth/login"
              -> { "accounts", "accounts.maersk.com", "login" }
      [] str = "https://www.maersk.com/portaluser/login"
              -> { "portaluser", "/portaluser", "/portaluser/", "portaluser/login", "login" }
      [] OTHER -> {}

\* String.prototype.includes
Includes(str, phrase) == phrase \in Occurring(str)

\* a body is a set of fragments; a fragment is early when it lies in the first 1000
\* characters of document.body.innerText
Fragments ==
    { [ text |-> t, early |-> TRUE ] : t \in Texts }
        \cup { [ text |-> "Access Denied", early |-> FALSE ] }

MaxFragments == 2   \* most fragments on one page

Bodies == { b \in SUBSET Fragments : Cardinality(b) <= MaxFragments }

Markers == { {}, { "#mc-input-origin" }, { "mc-c-origin-destination" } }

Pages ==
    [ url : Urls, title : Titles, body : Bodies, markers : Markers, captchaIframe : BOOLEAN ]

\* document.body.innerText includes the phrase
BodyIncludes(p, phrase) == \E f \in p.body : Includes(f.text, phrase)

\* document.body.innerText.toLowerCase() includes the phrase
BodyLowerIncludes(p, phrase) == \E f \in p.body : Includes(ToLowerCase(f.text), phrase)

\* document.body.innerText.substring(0, 1000) includes the phrase
PageTextIncludes(p, phrase) == \E f \in p.body : f.early /\ Includes(f.text, phrase)

CaptchaIndicators ==
    { "captcha", "i am not a robot", "i'm not a robot", "recaptcha", "hcaptcha",
      "are you a human", "verify you are human" }

detectCaptcha(p) ==
    \/ \E ind \in CaptchaIndicators :
          BodyLowerIncludes(p, ind) \/ Includes(ToLowerCase(p.title), ind)
    \/ p.captchaIframe

detectAccessDenied(p) ==
    \/ BodyLowerIncludes(p, "access denied")
    \/ BodyLowerIncludes(p, "your ip")
    \/ BodyLowerIncludes(p, "blocked")
    \/ BodyLowerIncludes(p, "you don't have permission")
    \/ Includes(ToLowerCase(p.title), "access denied")
    \/ Includes(ToLowerCase(p.title), "blocked")

\* the access-denied test the run itself makes (line 532)
InlineAccessDenied(p) ==
    \/ Includes(p.title, "Access Denied")
    \/ PageTextIncludes(p, "Access Denied")
    \/ PageTextIncludes(p, "you don't have permission")

\* variant: the first probe misses #mc-input-origin, as the later probes do
MarkerVisibleComponentOnly(p) == "mc-c-origin-destination" \in p.markers

\* the first booking-form probe (line 512)
BookingMarkerVisible(p) ==
    p.markers \cap { "#mc-input-origin", "mc-c-origin-destination" } # {}

----------------------------------------------------------------------------
(* scraper/maersk.js: one run of scrapeMaerskSpotRate                      *)

MaxConsentAttempts == 3     \* the consent-retry loop of line 726
MaxCards == 2               \* most candidates extracted from a results page

\* the object returned on a failure path
Failed(reason, snap) ==
    [ status |-> "FAILED", reason_code |-> Some(reason), snapshot_id |-> snap, candidates |-> 0 ]

\* the id saveSnapshot returns: fresh on every call
NewSnapshotId == Cardinality(savedSnapshots) + 1

\* an awaited call of the current step rejects: control passes to the catch block
Throws ==
    /\ pc' = "catch"
    /\ UNCHANGED <<page, context, currentUrl, bookingFormVisible, snapshotId, savedSnapshots,
                   oauthGrantFailed, consentAttempt, recovered, waitResult, trail, outcome>>

\* "await context.close(); return {...}"
CloseReturn(result) ==
    /\ context' = IF context = "destroyed" THEN "destroyed" ELSE "closed"
    /\ outcome' = Some(result)
    /\ pc' = "done"

\* "html = await page.content(); snapshotId = saveSnapshot(html, job_id);
\*  await context.close(); return {status: 'FAILED', reason_code, snapshot_id: snapshotId}"
\* page.content() can reject (page closed or crashed) and saveSnapshot can throw
\* (the snapshot files cannot be written)
SnapshotCloseReturn(reason) ==
    \/ \* page.content() rejects or saveSnapshot throws: nothing is assigned
       /\ Throws
    \/ /\ context = "open"
       /\ snapshotId' = Some(NewSnapshotId)
       /\ savedSnapshots' = savedSnapshots \cup { NewSnapshotId }
       /\ CloseReturn(Failed(reason, Some(NewSnapshotId)))
       /\ UNCHANGED <<page, currentUrl, bookingFormVisible, oauthGrantFailed, consentAttempt,
                      recovered, waitResult, trail>>

ScrapeInit ==
    /\ pc = "start"
    /\ page = None
    /\ context = "none"
    /\ currentUrl = ""
    /\ bookingFormVisible = FALSE
    /\ snapshotId = None
    /\ savedSnapshots = {}
    /\ oauthGrantFailed = FALSE
    /\ consentAttempt = 0
    /\ recovered = FALSE
    /\ waitResult = None
    /\ trail = {}
    /\ outcome = None
    /\ ValidatorIdle
    /\ ListIdle
    /\ RaceIdle
    /\ JobIdle
    /\ RateIdle
    /\ DbIdle
    /\ ExtractIdle
    /\ ParamsIdle
    /\ HistIdle
    /\ AcceptIdle
    /\ PollIdle

\* lines 422-471: launchPersistentContext, first page, listeners, init script
Launch ==
    /\ pc = "start"
    /\ \/ \* launchPersistentContext rejects: context is still null
          Throws
       \/ \* the context is up, a later call (newPage, addInitScript) rejects
          /\ context' = "open"
          /\ pc' = "catch"
          /\ UNCHANGED <<page, currentUrl, bookingFormVisible, snapshotId, savedSnapshots,
                         oauthGrantFailed, consentAttempt, recovered, waitResult, trail, outcome>>
       \/ /\ context' = "open"
          /\ pc' = "navigate"
          /\ UNCHANGED <<page, currentUrl, bookingFormVisible, snapshotId, savedSnapshots,
                         oauthGrantFailed, consentAttempt, recovered, waitResult, trail, outcome>>
    /\ UNCHANGED validatorVars
    /\ UNCHANGED listVars
    /\ UNCHANGED raceVars
    /\ UNCHANGED rateVars
    /\ UNCHANGED dbVars
    /\ UNCHANGED extractVars
    /\ UNCHANGED paramVars
    /\ UNCHANGED jobVars
    /\ UNCHANGED histVars
    /\ UNCHANGED acceptVars
    /\ UNCHANGED pollVars

\* the response listener of lines 444-453 sees a failing /access_token response
OAuthTokenFailure ==
    /\ pc \notin { "start", "done" }
    /\ context = "open"
    /\ ~oauthGrantFailed
    /\ oauthGrantFailed' = TRUE
    /\ UNCHANGED <<pc, page, context, currentUrl, bookingFormVisible, snapshotId, savedSnapshots,
                   consentAttempt, recovered, waitResult, trail, outcome>>
    /\ UNCHANGED validatorVars
    /\ UNCHANGED listVars
    /\ UNCHANGED raceVars
    /\ UNCHANGED rateVars
    /\ UNCHANGED dbVars
    /\ UNCHANGED extractVars
    /\ UNCHANGED paramVars
    /\ UNCHANGED jobVars
    /\ UNCHANGED histVars
    /\ UNCHANGED acceptVars
    /\ UNCHANGED pollVars

\* the browser context is closed from outside or dies: from then on every call on the
\* page or the context rejects
ContextDestroyed ==
    /\ pc \notin { "idle", "start", "done" }
    /\ context = "open"
    /\ context' = "destroyed"
    /\ UNCHANGED <<pc, page, currentUrl, bookingFormVisible, snapshotId, savedSnapshots,
                   oauthGrantFailed, consentAttempt, recovered, waitResult, trail, outcome>>
    /\ UNCHANGED validatorVars
    /\ UNCHANGED listVars
    /\ UNCHANGED raceVars
    /\ UNCHANGED rateVars
    /\ UNCHANGED dbVars
    /\ UNCHANGED extractVars
    /\ UNCHANGED paramVars
    /\ UNCHANGED jobVars
    /\ UNCHANGED histVars
    /\ UNCHANGED acceptVars
    /\ UNCHANGED pollVars

\* lines 473-516: goto (two attempts), settle, cookie banner, first probes
Navigate ==
    /\ pc = "navigate"
    /\ \/ \* both attempts fail, or a wait or the banner click rejects
          Throws
       \/ \E p \in Pages :
            /\ context = "open"
            /\ page' = Some(p)
            /\ currentUrl' = p.url
            /\ bookingFormVisible' = BookingMarkerVisible(p)
            /\ pc' = "classify"
            /\ UNCHANGED <<context, snapshotId, savedSnapshots, oauthGrantFailed, consentAttempt,
                           recovered, waitResult, trail, outcome>>
    /\ UNCHANGED validatorVars
    /\ UNCHANGED listVars
    /\ UNCHANGED raceVars
    /\ UNCHANGED rateVars
    /\ UNCHANGED dbVars
    /\ UNCHANGED extractVars
    /\ UNCHANGED paramVars
    /\ UNCHANGED jobVars
    /\ UNCHANGED histVars
    /\ UNCHANGED acceptVars
    /\ UNCHANGED pollVars

\* lines 518-545: the early-exit tests on the page reached
Classify ==
    /\ pc = "classify"
    /\ pc' = IF context = "open" /\ detectCaptcha(Val(page)) THEN "captcha"
             ELSE IF InlineAccessDenied(Val(page)) THEN "denied"
             ELSE IF Includes(currentUrl, "accounts.maersk.com") \/ ~bookingFormVisible
                  THEN "login_check"
             ELSE "fill"
    /\ UNCHANGED <<page, context, currentUrl, bookingFormVisible, snapshotId, savedSnapshots,
                   oauthGrantFailed, consentAttempt, recovered, waitResult, trail, outcome>>
    /\ UNCHANGED validatorVars
    /\ UNCHANGED listVars
    /\ UNCHANGED raceVars
    /\ UNCHANGED rateVars
    /\ UNCHANGED dbVars
    /\ UNCHANGED extractVars
    /\ UNCHANGED paramVars
    /\ UNCHANGED jobVars
    /\ UNCHANGED histVars
    /\ UNCHANGED acceptVars
    /\ UNCHANGED pollVars

\* lines 520-529
CaptchaExit ==
    /\ pc = "captcha"
    /\ SnapshotCloseReturn("CAPTCHA_DETECTED")
    /\ UNCHANGED validatorVars
    /\ UNCHANGED listVars
    /\ UNCHANGED raceVars
    /\ UNCHANGED rateVars
    /\ UNCHANGED dbVars
    /\ UNCHANGED extractVars
    /\ UNCHANGED paramVars
    /\ UNCHANGED jobVars
    /\ UNCHANGED histVars
    /\ UNCHANGED acceptVars
    /\ UNCHANGED pollVars

\* lines 533-542
AccessDeniedExit ==
    /\ pc = "denied"
    /\ SnapshotCloseReturn("ACCESS_DENIED")
    /\ UNCHANGED validatorVars
    /\ UNCHANGED listVars
    /\ UNCHANGED raceVars
    /\ UNCHANGED rateVars
    /\ UNCHANGED dbVars
    /\ UNCHANGED extractVars
    /\ UNCHANGED paramVars
    /\ UNCHANGED jobVars
    /\ UNCHANGED histVars
    /\ UNCHANGED acceptVars
    /\ UNCHANGED pollVars

\* lines 545-584: is a login needed?  A second goto when the page is neither a booking
\* nor a login page, a further wait, then the probe of line 584 on the page as it is then
LoginCheck ==
    /\ pc = "login_check"
    /\ \/ \* page.evaluate of line 549 or a waitForTimeout rejects
          Throws
       \/ \E passwordInput \in BOOLEAN, urlAfter \in Urls, visibleAfter \in BOOLEAN,
             visible584 \in BOOLEAN :
            LET p == Val(page)
                isActuallyLoginPage ==
                    BodyIncludes(p, "Sign in to your account")
                        \/ BodyIncludes(p, "Welcome to Maersk") \/ passwordInput
                regoto == /\ ~Includes(currentUrl, "book") /\ ~Includes(currentUrl, "accounts")
                          /\ ~isActuallyLoginPage
            IN  /\ context = "open"
                /\ (~regoto => urlAfter = currentUrl /\ visibleAfter = bookingFormVisible)
                /\ currentUrl' = urlAfter
                /\ bookingFormVisible' = visibleAfter
                /\ pc' = IF Includes(urlAfter, "accounts.maersk.com") \/ ~visible584
                         THEN "login" ELSE "fill"
                /\ trail' = IF Includes(urlAfter, "accounts.maersk.com") \/ ~visible584
                            THEN trail ELSE trail \cup { "booking_visible" }
            /\ UNCHANGED <<page, context, snapshotId, savedSnapshots, oauthGrantFailed,
                           consentAttempt, recovered, waitResult, outcome>>
    /\ UNCHANGED validatorVars
    /\ UNCHANGED listVars
    /\ UNCHANGED raceVars
    /\ UNCHANGED rateVars
    /\ UNCHANGED dbVars
    /\ UNCHANGED extractVars
    /\ UNCHANGED paramVars
    /\ UNCHANGED jobVars
    /\ UNCHANGED histVars
    /\ UNCHANGED acceptVars
    /\ UNCHANGED pollVars

\* lines 585-627: debug capture, overlays, the username probe
Login ==
    /\ pc = "login"
    /\ \/ \* waitForTimeout of line 590 rejects
          Throws
       \/ \E usernameVisible \in BOOLEAN :
            /\ context = "open"
            /\ pc' = IF usernameVisible THEN "credentials" ELSE "portal"
            /\ UNCHANGED <<page, context, currentUrl, bookingFormVisible, snapshotId,
                           savedSnapshots, oauthGrantFailed, consentAttempt, recovered,
                           waitResult, trail, outcome>>
    /\ UNCHANGED validatorVars
    /\ UNCHANGED listVars
    /\ UNCHANGED raceVars
    /\ UNCHANGED rateVars
    /\ UNCHANGED dbVars
    /\ UNCHANGED extractVars
    /\ UNCHANGED paramVars
    /\ UNCHANGED jobVars
    /\ UNCHANGED histVars
    /\ UNCHANGED acceptVars
    /\ UNCHANGED pollVars

\* lines 628-652: type the username and the password, click the login button
Credentials ==
    /\ pc = "credentials"
    /\ \/ \* the click on the username input rejects
          Throws
       \/ \* the username is typed, then the password input is missing or a call rejects
          /\ context = "open"
          /\ trail' = trail \cup { "type_credentials" }
          /\ pc' = "catch"
          /\ UNCHANGED <<page, context, currentUrl, bookingFormVisible, snapshotId,
                         savedSnapshots, oauthGrantFailed, consentAttempt, recovered,
                         waitResult, outcome>>
       \/ /\ context = "open"
          /\ trail' = trail \cup { "type_credentials", "submit_credentials" }
          /\ pc' = "login_poll"
          /\ UNCHANGED <<page, context, currentUrl, bookingFormVisible, snapshotId,
                         savedSnapshots, oauthGrantFailed, consentAttempt, recovered,
                         waitResult, outcome>>
    /\ UNCHANGED validatorVars
    /\ UNCHANGED listVars
    /\ UNCHANGED raceVars
    /\ UNCHANGED rateVars
    /\ UNCHANGED dbVars
    /\ UNCHANGED extractVars
    /\ UNCHANGED paramVars
    /\ UNCHANGED jobVars
    /\ UNCHANGED histVars
    /\ UNCHANGED acceptVars
    /\ UNCHANGED pollVars

\* lines 654-671: six probes for the booking form after the login
\* variant: the run goes on to the form whatever the probes of the poll returned
AfterLoginPollAlwaysFill(loginSuccess) == "fill"

\* line 671: the recovery block is entered when no probe of the poll was true
AfterLoginPoll(loginSuccess) == IF loginSuccess THEN "fill" ELSE "recovery"

LoginPoll ==
    /\ pc = "login_poll"
    /\ \/ \* a waitForTimeout rejects
          Throws
       \/ \E loginSuccess \in BOOLEAN :
            /\ context = "open"
            /\ pc' = AfterLoginPoll(loginSuccess)
            /\ trail' = IF loginSuccess THEN trail \cup { "booking_visible" } ELSE trail
            /\ UNCHANGED <<page, context, currentUrl, bookingFormVisible, snapshotId,
                           savedSnapshots, oauthGrantFailed, consentAttempt, recovered,
                           waitResult, outcome>>
    /\ UNCHANGED validatorVars
    /\ UNCHANGED listVars
    /\ UNCHANGED raceVars
    /\ UNCHANGED rateVars
    /\ UNCHANGED dbVars
    /\ UNCHANGED extractVars
    /\ UNCHANGED paramVars
    /\ UNCHANGED jobVars
    /\ UNCHANGED histVars
    /\ UNCHANGED acceptVars
    /\ UNCHANGED pollVars

\* lines 672-698: clear the storage, go back to the booking page, six more probes
Recovery ==
    /\ pc = "recovery"
    /\ \/ \* the goto of line 682 is attempted, the waitForTimeout of line 683 rejects
          /\ pc' = "catch"
          /\ trail' = trail \cup { "goto" }
       \/ \E retryLoginSuccess \in BOOLEAN :
            /\ context = "open"
            /\ pc' = IF retryLoginSuccess THEN "fill" ELSE "accounts_login"
            /\ trail' = trail \cup { "goto" }
                           \cup (IF retryLoginSuccess THEN { "booking_visible" } ELSE {})
    /\ UNCHANGED <<page, context, currentUrl, bookingFormVisible, snapshotId,
                   savedSnapshots, oauthGrantFailed, consentAttempt, recovered,
                   waitResult, outcome>>
    /\ UNCHANGED validatorVars
    /\ UNCHANGED listVars
    /\ UNCHANGED raceVars
    /\ UNCHANGED rateVars
    /\ UNCHANGED dbVars
    /\ UNCHANGED extractVars
    /\ UNCHANGED paramVars
    /\ UNCHANGED jobVars
    /\ UNCHANGED histVars
    /\ UNCHANGED acceptVars
    /\ UNCHANGED pollVars

\* lines 699-722: the explicit accounts.maersk.com login (errors are caught), the final
\* check, and the decision to enter the consent-retry loop
AccountsLogin ==
    /\ pc = "accounts_login"
    /\ \E typed \in SUBSET { "type_credentials", "submit_credentials" }, finalCheck \in BOOLEAN :
         /\ (context # "open" => typed = {} /\ ~finalCheck)
         /\ trail' = trail \cup { "goto" } \cup typed
                        \cup (IF finalCheck THEN { "booking_visible" } ELSE {})
         /\ pc' = IF finalCheck THEN "fill"
                  ELSE IF oauthGrantFailed THEN "consent" ELSE "login_failed"
    /\ UNCHANGED <<page, context, currentUrl, bookingFormVisible, snapshotId, savedSnapshots,
                   oauthGrantFailed, consentAttempt, recovered, waitResult, outcome>>
    /\ UNCHANGED validatorVars
    /\ UNCHANGED listVars
    /\ UNCHANGED raceVars
    /\ UNCHANGED rateVars
    /\ UNCHANGED dbVars
    /\ UNCHANGED extractVars
    /\ UNCHANGED paramVars
    /\ UNCHANGED jobVars
    /\ UNCHANGED histVars
    /\ UNCHANGED acceptVars
    /\ UNCHANGED pollVars

\* variant: the consent-retry loop goes on until the booking form is visible
ConsentAttemptUnbounded ==
    /\ pc = "consent"
    /\ \E typed \in SUBSET { "type_credentials", "submit_credentials" },
          postConsentCheck \in BOOLEAN :
         /\ (context # "open" => typed = {} /\ ~postConsentCheck)
         /\ trail' = trail \cup { "goto" } \cup typed
         /\ consentAttempt' = IF consentAttempt < MaxConsentAttempts
                              THEN consentAttempt + 1 ELSE consentAttempt
         /\ recovered' = postConsentCheck
         /\ pc' = IF postConsentCheck THEN "login_failed" ELSE "consent"
    /\ UNCHANGED <<page, context, currentUrl, bookingFormVisible, snapshotId, savedSnapshots,
                   oauthGrantFailed, waitResult, outcome>>
    /\ UNCHANGED validatorVars
    /\ UNCHANGED listVars
    /\ UNCHANGED raceVars
    /\ UNCHANGED rateVars
    /\ UNCHANGED dbVars
    /\ UNCHANGED extractVars
    /\ UNCHANGED paramVars
    /\ UNCHANGED jobVars
    /\ UNCHANGED histVars
    /\ UNCHANGED acceptVars
    /\ UNCHANGED pollVars

\* lines 726-765: one iteration of the consent-retry loop (its errors are caught)
ConsentAttempt ==
    /\ pc = "consent"
    /\ consentAttempt < MaxConsentAttempts
    /\ \E typed \in SUBSET { "type_credentials", "submit_credentials" },
          postConsentCheck \in BOOLEAN :
         /\ (context # "open" => typed = {} /\ ~postConsentCheck)
         /\ trail' = trail \cup { "goto" } \cup typed
         /\ consentAttempt' = consentAttempt + 1
         /\ recovered' = postConsentCheck
         /\ pc' = IF postConsentCheck \/ consentAttempt + 1 = MaxConsentAttempts
                  THEN "login_failed" ELSE "consent"
    /\ UNCHANGED <<page, context, currentUrl, bookingFormVisible, snapshotId, savedSnapshots,
                   oauthGrantFailed, waitResult, outcome>>
    /\ UNCHANGED validatorVars
    /\ UNCHANGED listVars
    /\ UNCHANGED raceVars
    /\ UNCHANGED rateVars
    /\ UNCHANGED dbVars
    /\ UNCHANGED extractVars
    /\ UNCHANGED paramVars
    /\ UNCHANGED jobVars
    /\ UNCHANGED histVars
    /\ UNCHANGED acceptVars
    /\ UNCHANGED pollVars

\* lines 772-783: the failure return of the credential path
LoginFailedExit ==
    /\ pc = "login_failed"
    /\ SnapshotCloseReturn(IF oauthGrantFailed THEN "OAUTH_GRANT_FAILED" ELSE "LOGIN_FAILED")
    /\ UNCHANGED validatorVars
    /\ UNCHANGED listVars
    /\ UNCHANGED raceVars
    /\ UNCHANGED rateVars
    /\ UNCHANGED dbVars
    /\ UNCHANGED extractVars
    /\ UNCHANGED paramVars
    /\ UNCHANGED jobVars
    /\ UNCHANGED histVars
    /\ UNCHANGED acceptVars
    /\ UNCHANGED pollVars

\* lines 788-872: no username input: login links, portal heuristics, snapshot, and
\* the return when the booking form is still not visible
Portal ==
    /\ pc = "portal"
    /\ \E url \in Urls, typed \in SUBSET { "type_credentials", "submit_credentials" } :
         /\ (~(Includes(url, "portaluser") \/ Includes(url, "login")) => typed = {})
         /\ (context # "open" => typed = {} /\ url = currentUrl)
         /\ \/ \* page.content() of line 844 rejects or saveSnapshot throws
               /\ pc' = "catch"
               /\ trail' = trail \cup typed
               /\ UNCHANGED <<context, snapshotId, savedSnapshots, outcome>>
            \/ \E newBookingVisible \in BOOLEAN, detectPortalLogin \in BOOLEAN :
                 /\ context = "open"
                 /\ trail' = trail \cup typed
                                \cup (IF newBookingVisible THEN { "booking_visible" } ELSE {})
                 /\ (Includes(ToLowerCase(url), "/portaluser") => detectPortalLogin)
                 /\ snapshotId' = Some(NewSnapshotId)
                 /\ savedSnapshots' = savedSnapshots \cup { NewSnapshotId }
                 /\ IF newBookingVisible
                    THEN /\ pc' = "fill"
                         /\ UNCHANGED <<context, outcome>>
                    ELSE CloseReturn(Failed(IF ~detectPortalLogin THEN "UNKNOWN_STATE"
                                            ELSE IF oauthGrantFailed THEN "OAUTH_GRANT_FAILED"
                                            ELSE "LOGIN_FAILED",
                                            Some(NewSnapshotId)))
    /\ UNCHANGED <<page, currentUrl, bookingFormVisible, oauthGrantFailed, consentAttempt,
                   recovered, waitResult>>
    /\ UNCHANGED validatorVars
    /\ UNCHANGED listVars
    /\ UNCHANGED raceVars
    /\ UNCHANGED rateVars
    /\ UNCHANGED dbVars
    /\ UNCHANGED extractVars
    /\ UNCHANGED paramVars
    /\ UNCHANGED jobVars
    /\ UNCHANGED histVars
    /\ UNCHANGED acceptVars
    /\ UNCHANGED pollVars

\* lines 877-1083: origin, destination, date, container type
FillForm ==
    /\ pc = "fill"
    /\ trail' = trail \cup { "fill_form" }
    /\ \/ \* a click, a keystroke or an evaluate rejects
          pc' = "catch"
       \/ context = "open" /\ pc' = "submit"
    /\ UNCHANGED <<page, context, currentUrl, bookingFormVisible, snapshotId, savedSnapshots,
                   oauthGrantFailed, consentAttempt, recovered, waitResult, outcome>>
    /\ UNCHANGED validatorVars
    /\ UNCHANGED listVars
    /\ UNCHANGED raceVars
    /\ UNCHANGED rateVars
    /\ UNCHANGED dbVars
    /\ UNCHANGED extractVars
    /\ UNCHANGED paramVars
    /\ UNCHANGED jobVars
    /\ UNCHANGED histVars
    /\ UNCHANGED acceptVars
    /\ UNCHANGED pollVars

\* the values getAttribute('disabled') returns
DisabledAttrs == { None, Some(""), Some("true"), Some("false") }

\* lines 1085-1141: locate the submit control, test it, click it
Submit ==
    /\ pc = "submit"
    /\ \/ \* getAttribute or the click rejects
          Throws
       \/ \E found \in BOOLEAN, isDisabled \in DisabledAttrs, later \in DisabledAttrs :
            LET isActuallyDisabled == isDisabled # None /\ isDisabled # Some("false")
            IN  /\ (context # "open" => ~found)
                /\ (~found => isDisabled = None /\ later = None)
                /\ (~isActuallyDisabled => later = isDisabled)
                /\ pc' = IF ~found THEN "form_error"
                         ELSE IF isActuallyDisabled /\ later # None THEN "form_incomplete"
                         ELSE "wait"
                /\ trail' = trail
                            \cup (IF found /\ ~(isActuallyDisabled /\ later # None)
                                  THEN { "click_submit" } ELSE {})
                            \cup (IF found /\ (later = None \/ later = Some("false"))
                                  THEN { "submit_enabled" } ELSE {})
            /\ UNCHANGED <<page, context, currentUrl, bookingFormVisible, snapshotId,
                           savedSnapshots, oauthGrantFailed, consentAttempt, recovered,
                           waitResult, outcome>>
    /\ UNCHANGED validatorVars
    /\ UNCHANGED listVars
    /\ UNCHANGED raceVars
    /\ UNCHANGED rateVars
    /\ UNCHANGED dbVars
    /\ UNCHANGED extractVars
    /\ UNCHANGED paramVars
    /\ UNCHANGED jobVars
    /\ UNCHANGED histVars
    /\ UNCHANGED acceptVars
    /\ UNCHANGED pollVars

\* lines 1106-1117
FormErrorExit ==
    /\ pc = "form_error"
    /\ SnapshotCloseReturn("FORM_ERROR")
    /\ UNCHANGED validatorVars
    /\ UNCHANGED listVars
    /\ UNCHANGED raceVars
    /\ UNCHANGED rateVars
    /\ UNCHANGED dbVars
    /\ UNCHANGED extractVars
    /\ UNCHANGED paramVars
    /\ UNCHANGED jobVars
    /\ UNCHANGED histVars
    /\ UNCHANGED acceptVars
    /\ UNCHANGED pollVars

\* lines 1127-1137
FormIncompleteExit ==
    /\ pc = "form_incomplete"
    /\ SnapshotCloseReturn("FORM_INCOMPLETE")
    /\ UNCHANGED validatorVars
    /\ UNCHANGED listVars
    /\ UNCHANGED raceVars
    /\ UNCHANGED rateVars
    /\ UNCHANGED dbVars
    /\ UNCHANGED extractVars
    /\ UNCHANGED paramVars
    /\ UNCHANGED jobVars
    /\ UNCHANGED histVars
    /\ UNCHANGED acceptVars
    /\ UNCHANGED pollVars

\* the three watchers handed to Promise.race (lines 1147-1159), in array order, each
\* resolving to its name when its element becomes visible
Watchers == << "SUCCESS", "ERROR", "NO_RESULTS" >>

WaitTimeoutMs == 35000

\* the moment, in ms after the click, at which a watched element becomes visible
VisibleTimes == { None, Some(1000), Some(34999), Some(40000) }

WatcherInputs == [ 1..3 -> VisibleTimes ]

\* variant: the error-banner watcher is given a shorter timeout than the others
WatcherTimeoutShortBanner(i) == IF i = 2 THEN 10000 ELSE WaitTimeoutMs

\* the timeout option of watcher i
WatcherTimeout(i) == WaitTimeoutMs

\* locator.waitFor({state: 'visible', timeout}).then(() => name): the promise resolves
\* when the element is visible before the timeout and rejects at the timeout otherwise
Settle(v, i) ==
    IF v[i] # None /\ Val(v[i]) < WatcherTimeout(i)
    THEN [ at |-> Val(v[i]), value |-> Some(Watchers[i]) ]
    ELSE [ at |-> WatcherTimeout(i), value |-> None ]

\* Promise.race(...).catch(() => 'TIMEOUT'): the first promise to settle decides;
\* promises settling at the same moment may be served in either order
RaceResults(v) ==
    LET first == CHOOSE t \in { Settle(v, i).at : i \in 1..3 } :
                     \A i \in 1..3 : t <= Settle(v, i).at
    IN  { IF Settle(v, i).value = None THEN "TIMEOUT" ELSE Val(Settle(v, i).value) :
              i \in { k \in 1..3 : Settle(v, k).at = first } }

WaitResults == UNION { RaceResults(v) : v \in WatcherInputs }

\* lines 1143-1165: the race of the three watchers, then the snapshot
AwaitResults ==
    /\ pc = "wait"
    /\ \E w \in WaitResults :
         \/ \* page.content() rejects or saveSnapshot throws
            /\ (context # "open" => w = "TIMEOUT")
            /\ waitResult' = Some(w)
            /\ pc' = "catch"
            /\ UNCHANGED <<snapshotId, savedSnapshots>>
         \/ /\ context = "open"
            /\ waitResult' = Some(w)
            /\ snapshotId' = Some(NewSnapshotId)
            /\ savedSnapshots' = savedSnapshots \cup { NewSnapshotId }
            /\ pc' = IF w = "SUCCESS" THEN "extract" ELSE "results_failed"
    /\ UNCHANGED <<page, context, currentUrl, bookingFormVisible, oauthGrantFailed,
                   consentAttempt, recovered, trail, outcome>>
    /\ UNCHANGED validatorVars
    /\ UNCHANGED listVars
    /\ UNCHANGED raceVars
    /\ UNCHANGED rateVars
    /\ UNCHANGED dbVars
    /\ UNCHANGED extractVars
    /\ UNCHANGED paramVars
    /\ UNCHANGED jobVars
    /\ UNCHANGED histVars
    /\ UNCHANGED acceptVars
    /\ UNCHANGED pollVars

\* lines 1167-1193: the wait did not end on a results card
ResultsFailedExit ==
    /\ pc = "results_failed"
    /\ \E noRoutesInHtml \in BOOLEAN, isSomethingWentWrong \in BOOLEAN :
         CloseReturn(Failed(IF waitResult = Some("NO_RESULTS") \/ noRoutesInHtml THEN "NO_ROUTES"
                            ELSE IF isSomethingWentWrong THEN "WEBSITE_ERROR"
                            ELSE "TIMEOUT",
                            snapshotId))
    /\ UNCHANGED <<page, currentUrl, bookingFormVisible, snapshotId, savedSnapshots,
                   oauthGrantFailed, consentAttempt, recovered, waitResult, trail>>
    /\ UNCHANGED validatorVars
    /\ UNCHANGED listVars
    /\ UNCHANGED raceVars
    /\ UNCHANGED rateVars
    /\ UNCHANGED dbVars
    /\ UNCHANGED extractVars
    /\ UNCHANGED paramVars
    /\ UNCHANGED jobVars
    /\ UNCHANGED histVars
    /\ UNCHANGED acceptVars
    /\ UNCHANGED pollVars

\* variant: the extracted list is returned as a SUCCESS whatever its length
ExtractNoEmptyCheck ==
    /\ pc = "extract"
    /\ \E n \in 0..MaxCards :
         /\ (context # "open" => n = 0)
         /\ CloseReturn([ status |-> "SUCCESS", reason_code |-> None,
                          snapshot_id |-> snapshotId, candidates |-> n ])
    /\ UNCHANGED <<page, currentUrl, bookingFormVisible, snapshotId, savedSnapshots,
                   oauthGrantFailed, consentAttempt, recovered, waitResult, trail>>
    /\ UNCHANGED validatorVars
    /\ UNCHANGED listVars
    /\ UNCHANGED raceVars
    /\ UNCHANGED rateVars
    /\ UNCHANGED dbVars
    /\ UNCHANGED extractVars
    /\ UNCHANGED paramVars
    /\ UNCHANGED jobVars
    /\ UNCHANGED histVars
    /\ UNCHANGED acceptVars
    /\ UNCHANGED pollVars

\* lines 1195-1217: extraction and the final return
Extract ==
    /\ pc = "extract"
    /\ \E n \in 0..MaxCards :
         /\ (context # "open" => n = 0)
         /\ CloseReturn(IF n = 0 THEN Failed("PARSE_ERROR", snapshotId)
                     ELSE [ status |-> "SUCCESS", reason_code |-> None,
                            snapshot_id |-> snapshotId, candidates |-> n ])
    /\ UNCHANGED <<page, currentUrl, bookingFormVisible, snapshotId, savedSnapshots,
                   oauthGrantFailed, consentAttempt, recovered, waitResult, trail>>
    /\ UNCHANGED validatorVars
    /\ UNCHANGED listVars
    /\ UNCHANGED raceVars
    /\ UNCHANGED rateVars
    /\ UNCHANGED dbVars
    /\ UNCHANGED extractVars
    /\ UNCHANGED paramVars
    /\ UNCHANGED jobVars
    /\ UNCHANGED histVars
    /\ UNCHANGED acceptVars
    /\ UNCHANGED pollVars

\* lines 1219-1250: the catch block
Catch ==
    /\ pc = "catch"
    /\ pc' = "done"
    /\ IF context = "none"
       THEN /\ outcome' = Some(Failed("SCRAPER_ERROR", snapshotId))
            /\ UNCHANGED <<context, snapshotId, savedSnapshots>>
       ELSE \/ \* no page, or page.content() fails and html is '': no snapshot
               /\ outcome' = Some(Failed("SCRAPER_ERROR", snapshotId))
               /\ context' = IF context = "destroyed" THEN "destroyed" ELSE "closed"
               /\ UNCHANGED <<snapshotId, savedSnapshots>>
            \/ \* the snapshot is saved
               /\ context = "open"
               /\ snapshotId' = Some(NewSnapshotId)
               /\ savedSnapshots' = savedSnapshots \cup { NewSnapshotId }
               /\ outcome' = Some(Failed("SCRAPER_ERROR", Some(NewSnapshotId)))
               /\ context' = "closed"
            \/ \* saveSnapshot throws: the inner catch skips context.close()
               /\ context = "open"
               /\ outcome' = Some(Failed("SCRAPER_ERROR", snapshotId))
               /\ UNCHANGED <<context, snapshotId, savedSnapshots>>
    /\ UNCHANGED <<page, currentUrl, bookingFormVisible, oauthGrantFailed, consentAttempt,
                   recovered, waitResult, trail>>
    /\ UNCHANGED validatorVars
    /\ UNCHANGED listVars
    /\ UNCHANGED raceVars
    /\ UNCHANGED rateVars
    /\ UNCHANGED dbVars
    /\ UNCHANGED extractVars
    /\ UNCHANGED paramVars
    /\ UNCHANGED jobVars
    /\ UNCHANGED histVars
    /\ UNCHANGED acceptVars
    /\ UNCHANGED pollVars

ScrapeNext ==
    \/ Launch
    \/ OAuthTokenFailure
    \/ ContextDestroyed
    \/ Navigate
    \/ Classify
    \/ CaptchaExit
    \/ AccessDeniedExit
    \/ LoginCheck
    \/ Login
    \/ Credentials
    \/ LoginPoll
    \/ Recovery
    \/ AccountsLogin
    \/ ConsentAttempt
    \/ LoginFailedExit
    \/ Portal
    \/ FillForm
    \/ Submit
    \/ FormErrorExit
    \/ FormIncompleteExit
    \/ AwaitResults
    \/ ResultsFailedExit
    \/ Extract
    \/ Catch

SpecScrape == ScrapeInit /\ [][ScrapeNext]_vars

----------------------------------------------------------------------------
(* SpecRace: the results wait of lines 1147-1159 taken alone               *)

RaceInit ==
    /\ watchers \in { Some(v) : v \in WatcherInputs }
    /\ ValidatorIdle
    /\ ListIdle
    /\ ScraperIdle
    /\ JobIdle
    /\ RateIdle
    /\ DbIdle
    /\ ExtractIdle
    /\ ParamsIdle
    /\ HistIdle
    /\ AcceptIdle
    /\ PollIdle

\* const waitResult = await Promise.race([...]).catch(() => 'TIMEOUT')
ResultsRace ==
    /\ watchers # None
    /\ waitResult = None
    /\ \E w \in RaceResults(Val(watchers)) : waitResult' = Some(w)
    /\ UNCHANGED <<pc, page, context, currentUrl, bookingFormVisible, snapshotId, savedSnapshots,
                   oauthGrantFailed, consentAttempt, recovered, trail, outcome>>
    /\ UNCHANGED validatorVars
    /\ UNCHANGED listVars
    /\ UNCHANGED raceVars
    /\ UNCHANGED rateVars
    /\ UNCHANGED dbVars
    /\ UNCHANGED extractVars
    /\ UNCHANGED paramVars
    /\ UNCHANGED jobVars
    /\ UNCHANGED histVars
    /\ UNCHANGED acceptVars
    /\ UNCHANGED pollVars

RaceNext == ResultsRace

SpecRace == RaceInit /\ [][RaceNext]_vars

----------------------------------------------------------------------------
(* routes/pricing.js: POST /scrape and its background job                  *)

\* request fields: None is an absent field
PortStrings == { "", "  ", "X", "INNSA" }
Ports == { None } \cup { Some(str) : str \in PortStrings }
ContainerTypes == { None, Some("40FT"), Some("BAD") }
Requests == [ from_port : Ports, to_port : Ports, container_type : ContainerTypes ]

\* String.prototype.trim on the port strings
Trim(str) == IF str = "  " THEN "" ELSE str

\* /^[a-zA-Z0-9\s\-]{2,10}$/.test(str)
MatchesPortPattern(str) == str \in { "  ", "INNSA" }

\* variant: a port only has to be present
validatePortPresent(port) == port # None

\* validatePort (lines 25-29)
validatePort(port) ==
    /\ port # None /\ port # Some("")
    /\ Trim(Val(port)) # ""
    /\ MatchesPortPattern(Trim(Val(port)))

\* REVERSE_CONTAINER_MAP (lines 43-58)
REVERSE_CONTAINER_MAP ==
    [ key \in { "20 DRY", "40 DRY", "40 HIGH CUBE DRY", "40 REEFER HIGH CUBE", "40 OPEN TOP",
                "45 HIGH CUBE DRY", "20FT", "40FT", "40HC", "40HIGH", "45FT", "REEFER", "OOG" } |->
        CASE key = "20 DRY" -> "20FT"
          [] key = "40 DRY" -> "40FT"
          [] key = "40 HIGH CUBE DRY" -> "40HC"
          [] key = "40 REEFER HIGH CUBE" -> "REEFER"
          [] key = "40 OPEN TOP" -> "OOG"
          [] key = "45 HIGH CUBE DRY" -> "45FT"
          [] OTHER -> key ]

\* type.toUpperCase().trim() on the strings of the model: the ones listed hold a
\* lower-case letter or a blank at an end, every other one is returned as it is
ToUpperCaseTrim(str) ==
    CASE str = "40ft" -> "40FT"
      [] str = " 40hc " -> "40HC"
      [] str = "20 Dry" -> "20 DRY"
      [] str = "40 Dry" -> "40 DRY"
      [] str = "40 High Cube Dry" -> "40 HIGH CUBE DRY"
      [] str = "40' High Cube Dry" -> "40' HIGH CUBE DRY"
      [] str = "40 Reefer High Cube" -> "40 REEFER HIGH CUBE"
      [] str = "40 Open Top" -> "40 OPEN TOP"
      [] str = "45 High Cube Dry" -> "45 HIGH CUBE DRY"
      [] str = "40 Dry Standard" -> "40 DRY STANDARD"
      [] OTHER -> str

\* replace(/[''`]/g, '') of line 71 on an upper-case string of the model
RemoveQuotes(str) ==
    IF str = "40' HIGH CUBE DRY" THEN "40 HIGH CUBE DRY" ELSE str

\* normalizeContainerType (lines 60-77)
normalizeContainerType(type) ==
    IF type = None \/ type = Some("") THEN None
    ELSE LET normalized == ToUpperCaseTrim(Val(type))
             simplified == RemoveQuotes(ToUpperCaseTrim(Val(type)))
         IN  IF normalized \in DOMAIN REVERSE_CONTAINER_MAP
             THEN Some(REVERSE_CONTAINER_MAP[normalized])
             ELSE IF simplified \in DOMAIN REVERSE_CONTAINER_MAP
                  THEN Some(REVERSE_CONTAINER_MAP[simplified])
                  ELSE None

\* validateContainerType (lines 79-83)
validateContainerType(type) ==
    type = None \/ type = Some("") \/ normalizeContainerType(type) # None

\* the object simulateScrape returns (maersk.js:79-84)
SimulatedResult ==
    [ status |-> "SUCCESS", reason_code |-> None, snapshot_id |-> None, candidates |-> 1 ]

\* the candidates of a scrape result as validateCandidates sees them: the simulated
\* candidate has confidence 0.85, an extracted one at most 0.75
JobCandidates(result, live) ==
    [ i \in 1..result.candidates |->
        IF live THEN ListCandidate(1000, "USD", 75) ELSE ListCandidate(1000, "USD", 85) ]

JobInit ==
    /\ jpc = "request"
    /\ request \in Requests
    /\ response = None
    /\ jobStatus = None
    /\ statusLog = <<>>
    /\ failureRecords = {}
    /\ scrapeResult = None
    /\ pricingRows = 0
    /\ pricingInserted = <<>>
    /\ dbFailed = {}
    /\ ValidatorIdle
    /\ ListIdle
    /\ ScraperIdle
    /\ RaceIdle
    /\ RateIdle
    /\ DbIdle
    /\ ExtractIdle
    /\ ParamsIdle
    /\ HistIdle
    /\ AcceptIdle
    /\ PollIdle

\* lines 238-283: validate the body, then insert the scrape_jobs row with status RUNNING
PostScrape ==
    /\ jpc = "request"
    /\ IF ~validatePort(request.from_port) \/ ~validatePort(request.to_port)
          \/ ~validateContainerType(request.container_type)
       THEN /\ response' = Some("INVALID_REQUEST")
            /\ jpc' = "end"
            /\ UNCHANGED <<jobStatus, statusLog, dbFailed>>
       ELSE \/ \* the INSERT throws
               /\ response' = Some("DATABASE_ERROR")
               /\ dbFailed' = dbFailed \cup { "insert_job" }
               /\ jpc' = "end"
               /\ UNCHANGED <<jobStatus, statusLog>>
            \/ /\ jobStatus' = Some("RUNNING")
               /\ statusLog' = Append(statusLog, "RUNNING")
               /\ jpc' = "respond"
               /\ UNCHANGED <<response, dbFailed>>
    /\ UNCHANGED <<request, failureRecords, scrapeResult, pricingRows, pricingInserted>>
    /\ UNCHANGED validatorVars
    /\ UNCHANGED listVars
    /\ UNCHANGED scraperVars
    /\ UNCHANGED raceVars
    /\ UNCHANGED rateVars
    /\ UNCHANGED dbVars
    /\ UNCHANGED extractVars
    /\ UNCHANGED paramVars
    /\ UNCHANGED histVars
    /\ UNCHANGED acceptVars
    /\ UNCHANGED pollVars

\* lines 285-293: send the STARTED response and schedule the background job
SendStarted ==
    /\ jpc = "respond"
    /\ response' = Some("STARTED")
    /\ jpc' = "background"
    /\ UNCHANGED <<request, jobStatus, statusLog, failureRecords, scrapeResult, pricingRows, pricingInserted,
                   dbFailed>>
    /\ UNCHANGED validatorVars
    /\ UNCHANGED listVars
    /\ UNCHANGED scraperVars
    /\ UNCHANGED raceVars
    /\ UNCHANGED rateVars
    /\ UNCHANGED dbVars
    /\ UNCHANGED extractVars
    /\ UNCHANGED paramVars
    /\ UNCHANGED histVars
    /\ UNCHANGED acceptVars
    /\ UNCHANGED pollVars

\* lines 294-307: choose the mode; call scrapeMaerskSpotRate or simulateScrape
BackgroundStart ==
    /\ jpc = "background"
    /\ \E liveMode \in BOOLEAN :
         IF liveMode
         THEN /\ pc' = "start"
              /\ jpc' = "scraping"
              /\ UNCHANGED scrapeResult
         ELSE /\ scrapeResult' = Some(SimulatedResult)
              /\ jpc' = "scraped_sim"
              /\ UNCHANGED pc
    /\ UNCHANGED <<page, context, currentUrl, bookingFormVisible, snapshotId, savedSnapshots,
                   oauthGrantFailed, consentAttempt, recovered, waitResult, trail, outcome>>
    /\ UNCHANGED <<request, response, jobStatus, statusLog, failureRecords, pricingRows, pricingInserted,
                   dbFailed>>
    /\ UNCHANGED validatorVars
    /\ UNCHANGED listVars
    /\ UNCHANGED raceVars
    /\ UNCHANGED rateVars
    /\ UNCHANGED dbVars
    /\ UNCHANGED extractVars
    /\ UNCHANGED paramVars
    /\ UNCHANGED histVars
    /\ UNCHANGED acceptVars
    /\ UNCHANGED pollVars

\* line 304: the awaited scrapeMaerskSpotRate call returns its outcome; the locals of
\* the call are gone, the browser context and the snapshot files remain what they are
ScrapeReturns ==
    /\ jpc = "scraping"
    /\ pc = "done"
    /\ scrapeResult' = outcome
    /\ jpc' = "scraped_live"
    /\ pc' = "idle"
    /\ page' = None
    /\ currentUrl' = ""
    /\ bookingFormVisible' = FALSE
    /\ snapshotId' = None
    /\ oauthGrantFailed' = FALSE
    /\ consentAttempt' = 0
    /\ recovered' = FALSE
    /\ waitResult' = None
    /\ trail' = {}
    /\ outcome' = None
    /\ UNCHANGED <<context, savedSnapshots>>
    /\ UNCHANGED <<request, response, jobStatus, statusLog, failureRecords, pricingRows, pricingInserted,
                   dbFailed>>
    /\ UNCHANGED validatorVars
    /\ UNCHANGED listVars
    /\ UNCHANGED raceVars
    /\ UNCHANGED rateVars
    /\ UNCHANGED dbVars
    /\ UNCHANGED extractVars
    /\ UNCHANGED paramVars
    /\ UNCHANGED histVars
    /\ UNCHANGED acceptVars
    /\ UNCHANGED pollVars

\* lines 326-338: the scrape returned FAILED
RecordFailure ==
    /\ jpc \in { "scraped_live", "scraped_sim" }
    /\ Val(scrapeResult).status = "FAILED"
    /\ \/ \* the UPDATE of line 328 throws
          /\ dbFailed' = dbFailed \cup { "update_failed" }
          /\ jpc' = "outer_catch"
          /\ UNCHANGED <<jobStatus, statusLog, failureRecords>>
       \/ \* the INSERT of line 332 throws and is caught
          /\ jobStatus' = Some("FAILED")
          /\ statusLog' = Append(statusLog, "FAILED")
          /\ dbFailed' = dbFailed \cup { "insert_failure" }
          /\ jpc' = "end"
          /\ UNCHANGED failureRecords
       \/ /\ jobStatus' = Some("FAILED")
          /\ statusLog' = Append(statusLog, "FAILED")
          /\ failureRecords' = failureRecords \cup
                 { IF Val(scrapeResult).reason_code = None THEN "SCRAPER_ERROR"
                   ELSE Val(Val(scrapeResult).reason_code) }
          /\ jpc' = "end"
          /\ UNCHANGED dbFailed
    /\ UNCHANGED <<request, response, scrapeResult, pricingRows, pricingInserted>>
    /\ UNCHANGED validatorVars
    /\ UNCHANGED listVars
    /\ UNCHANGED scraperVars
    /\ UNCHANGED raceVars
    /\ UNCHANGED rateVars
    /\ UNCHANGED dbVars
    /\ UNCHANGED extractVars
    /\ UNCHANGED paramVars
    /\ UNCHANGED histVars
    /\ UNCHANGED acceptVars
    /\ UNCHANGED pollVars

\* lines 340-361: historical median, validateCandidates, UPDATE to SUCCESS
RecordSuccess ==
    /\ jpc \in { "scraped_live", "scraped_sim" }
    /\ Val(scrapeResult).status # "FAILED"
    /\ \/ \* the SELECT of line 341 throws
          /\ dbFailed' = dbFailed \cup { "select_history" }
          /\ jpc' = "outer_catch"
          /\ UNCHANGED <<jobStatus, statusLog>>
       \/ \* the UPDATE of line 358 throws
          /\ dbFailed' = dbFailed \cup { "update_success" }
          /\ jpc' = "outer_catch"
          /\ UNCHANGED <<jobStatus, statusLog>>
       \/ /\ jobStatus' = Some("SUCCESS")
          /\ statusLog' = Append(statusLog, "SUCCESS")
          /\ jpc' = IF jpc = "scraped_live" THEN "accept_live" ELSE "accept_sim"
          /\ UNCHANGED dbFailed
    /\ UNCHANGED <<request, response, failureRecords, scrapeResult, pricingRows, pricingInserted>>
    /\ UNCHANGED validatorVars
    /\ UNCHANGED listVars
    /\ UNCHANGED scraperVars
    /\ UNCHANGED raceVars
    /\ UNCHANGED rateVars
    /\ UNCHANGED dbVars
    /\ UNCHANGED extractVars
    /\ UNCHANGED paramVars
    /\ UNCHANGED histVars
    /\ UNCHANGED acceptVars
    /\ UNCHANGED pollVars

\* ---- the historical median of the lane (pricing.js:340-355)

MaxLaneRows == 6           \* most pricing rows of one lane
LanePrices == { 700, 1000, 2000 }
HIST_LIMIT == 20           \* LIMIT 20 of the SELECT

\* a pricing row as every INSERT of the program writes it: the column list names
\* total_price and never price, so the column price of the row is NULL
PricingRowWritten(total) == [ price |-> None, total_price |-> Some(total) ]

\* ORDER BY created_at DESC LIMIT 20: the newest rows first
RECURSIVE NewestFirst(_, _)
NewestFirst(rows, limit) ==
    IF rows = <<>> \/ limit = 0 THEN <<>>
    ELSE <<rows[Len(rows)]>> \o NewestFirst(SubSeq(rows, 1, Len(rows) - 1), limit - 1)

\* SELECT price FROM pricing WHERE <lane>
SelectPrice(rows) ==
    LET picked == NewestFirst(rows, HIST_LIMIT)
    IN  [ k \in 1..Len(picked) |-> [ price |-> picked[k].price ] ]

\* the number a value counts as in a - b: null counts as 0
NumberOf(x) == IF x = None THEN 0 ELSE Val(x)

RECURSIVE InsertAscending(_, _)
InsertAscending(x, s) ==
    IF s = <<>> THEN <<x>>
    ELSE IF NumberOf(x) < NumberOf(Head(s)) THEN <<x>> \o s
         ELSE <<Head(s)>> \o InsertAscending(x, Tail(s))

\* sort((a, b) => a - b), stable
RECURSIVE SortAscending(_)
SortAscending(s) ==
    IF s = <<>> THEN <<>>
    ELSE InsertAscending(s[Len(s)], SortAscending(SubSeq(s, 1, Len(s) - 1)))

\* the median of the total prices of the rows (the value the properties compare with)
historicalMedianOfTotals(rows) ==
    LET totals == NewestFirst(rows, HIST_LIMIT)
    IN  IF Len(totals) >= 5
        THEN SortAscending([ k \in 1..Len(totals) |-> totals[k].total_price ])[(Len(totals) \div 2) + 1]
        ELSE None

\* lines 347-349: the middle of the sorted prices, null below five rows
historicalMedian(rows) ==
    LET histRows == SelectPrice(rows)
    IN  IF Len(histRows) >= 5
        THEN SortAscending([ k \in 1..Len(histRows) |-> histRows[k].price ])[(Len(histRows) \div 2) + 1]
        ELSE None

\* the options of line 352
JobValidationOpts(rows) ==
    [ NoOpts EXCEPT !.historical_median = historicalMedian(rows),
                    !.baseline_samples = Some(Len(SelectPrice(rows))) ]

LaneOf(n) == [ k \in 1..n |-> PricingRowWritten(1000) ]

\* the options a job run can pass: a lane without rows, with four and with five rows
JobOpts == { JobValidationOpts(LaneOf(n)) : n \in { 0, 4, 5 } }

HistInit ==
    /\ lanePricing = <<>>
    /\ histOpts = None
    /\ ValidatorIdle
    /\ ListIdle
    /\ ScraperIdle
    /\ RaceIdle
    /\ JobIdle
    /\ RateIdle
    /\ DbIdle
    /\ ExtractIdle
    /\ ParamsIdle
    /\ AcceptIdle
    /\ PollIdle

\* a row of the lane is written (seed.js:96-108, pricing.js:374-396, pricing.js:463-486)
InsertPricingRow ==
    /\ Len(lanePricing) < MaxLaneRows
    /\ \E total \in LanePrices :
         lanePricing' = Append(lanePricing, PricingRowWritten(total))
    /\ UNCHANGED histOpts
    /\ UNCHANGED validatorVars
    /\ UNCHANGED listVars
    /\ UNCHANGED scraperVars
    /\ UNCHANGED raceVars
    /\ UNCHANGED jobVars
    /\ UNCHANGED rateVars
    /\ UNCHANGED dbVars
    /\ UNCHANGED extractVars
    /\ UNCHANGED paramVars
    /\ UNCHANGED acceptVars
    /\ UNCHANGED pollVars

\* lines 340-355: a job run reads the lane and builds the validation options
ReadLaneHistory ==
    /\ histOpts' = Some(JobValidationOpts(lanePricing))
    /\ UNCHANGED lanePricing
    /\ UNCHANGED validatorVars
    /\ UNCHANGED listVars
    /\ UNCHANGED scraperVars
    /\ UNCHANGED raceVars
    /\ UNCHANGED jobVars
    /\ UNCHANGED rateVars
    /\ UNCHANGED dbVars
    /\ UNCHANGED extractVars
    /\ UNCHANGED paramVars
    /\ UNCHANGED acceptVars
    /\ UNCHANGED pollVars

HistNext == InsertPricingRow \/ ReadLaneHistory

SpecHist == HistInit /\ [][HistNext]_vars

\* variant: the first candidate that is not rejected is taken
IsNotRejected(c) == c.validation.outcome # "REJECT"

\* the predicate of the find of line 364
IsAutoAccepted(c) == c.validation.outcome = "AUTO_ACCEPT"

\* Array.prototype.find: None, or Some(first element satisfying the predicate of line 364)
FindAutoAccepted(list) ==
    IF \E k \in 1..Len(list) : IsAutoAccepted(list[k])
    THEN Some(list[CHOOSE k \in 1..Len(list) :
                     /\ IsAutoAccepted(list[k])
                     /\ \A j \in 1..(k - 1) : ~IsAutoAccepted(list[j])])
    ELSE None

\* variant: an error of the auto-accept step is not caught where it occurs
AutoAcceptUncaught ==
    /\ jpc \in { "accept_live", "accept_sim" }
    /\ \E o \in JobOpts :
         LET finalCandidates ==
                 validateCandidates(JobCandidates(Val(scrapeResult), jpc = "accept_live"), o, now)
             autoAccepted == FindAutoAccepted(finalCandidates)
         IN  \/ /\ autoAccepted = None
                /\ jpc' = "end"
                /\ UNCHANGED <<pricingRows, pricingInserted, dbFailed>>
             \/ /\ autoAccepted # None
                /\ dbFailed' = dbFailed \cup { "insert_pricing" }
                /\ jpc' = "outer_catch"
                /\ UNCHANGED <<pricingRows, pricingInserted>>
             \/ /\ autoAccepted # None
                /\ pricingRows' = pricingRows + 1
                /\ pricingInserted' = Append(pricingInserted, Val(autoAccepted))
                /\ jpc' = "end"
                /\ UNCHANGED dbFailed
    /\ UNCHANGED <<request, response, jobStatus, statusLog, failureRecords, scrapeResult>>
    /\ UNCHANGED validatorVars
    /\ UNCHANGED listVars
    /\ UNCHANGED scraperVars
    /\ UNCHANGED raceVars
    /\ UNCHANGED rateVars
    /\ UNCHANGED dbVars
    /\ UNCHANGED extractVars
    /\ UNCHANGED paramVars
    /\ UNCHANGED histVars
    /\ UNCHANGED acceptVars
    /\ UNCHANGED pollVars

\* lines 363-414: insert the first AUTO_ACCEPT candidate into pricing; errors are caught
AutoAccept ==
    /\ jpc \in { "accept_live", "accept_sim" }
    /\ \E o \in JobOpts :
         LET finalCandidates ==
                 validateCandidates(JobCandidates(Val(scrapeResult), jpc = "accept_live"), o, now)
             autoAccepted == FindAutoAccepted(finalCandidates)
         IN  \/ /\ autoAccepted = None
                /\ UNCHANGED <<pricingRows, pricingInserted, dbFailed>>
             \/ \* a statement before the INSERT into pricing, or that INSERT, throws
                /\ autoAccepted # None
                /\ dbFailed' = dbFailed \cup { "insert_pricing" }
                /\ UNCHANGED <<pricingRows, pricingInserted>>
             \/ \* the INSERT into pricing_history throws
                /\ autoAccepted # None
                /\ pricingRows' = pricingRows + 1
                /\ pricingInserted' = Append(pricingInserted, Val(autoAccepted))
                /\ dbFailed' = dbFailed \cup { "insert_history" }
             \/ /\ autoAccepted # None
                /\ pricingRows' = pricingRows + 1
                /\ pricingInserted' = Append(pricingInserted, Val(autoAccepted))
                /\ UNCHANGED dbFailed
    /\ jpc' = "end"
    /\ UNCHANGED <<request, response, jobStatus, statusLog, failureRecords, scrapeResult>>
    /\ UNCHANGED validatorVars
    /\ UNCHANGED listVars
    /\ UNCHANGED scraperVars
    /\ UNCHANGED raceVars
    /\ UNCHANGED rateVars
    /\ UNCHANGED dbVars
    /\ UNCHANGED extractVars
    /\ UNCHANGED paramVars
    /\ UNCHANGED histVars
    /\ UNCHANGED acceptVars
    /\ UNCHANGED pollVars

\* variant: the outermost catch only logs the exception
OuterCatchLogsOnly ==
    /\ jpc = "outer_catch"
    /\ jpc' = "end"
    /\ UNCHANGED <<request, response, jobStatus, statusLog, failureRecords, scrapeResult,
                   pricingRows, pricingInserted, dbFailed>>
    /\ UNCHANGED validatorVars
    /\ UNCHANGED listVars
    /\ UNCHANGED scraperVars
    /\ UNCHANGED raceVars
    /\ UNCHANGED rateVars
    /\ UNCHANGED dbVars
    /\ UNCHANGED extractVars
    /\ UNCHANGED paramVars
    /\ UNCHANGED histVars
    /\ UNCHANGED acceptVars
    /\ UNCHANGED pollVars

\* lines 416-427: the outermost catch of the background job
OuterCatch ==
    /\ jpc = "outer_catch"
    /\ \/ \* the UPDATE of line 422 throws and is caught
          /\ dbFailed' = dbFailed \cup { "update_final" }
          /\ UNCHANGED <<jobStatus, statusLog>>
       \/ /\ jobStatus' = Some("FAILED")
          /\ statusLog' = Append(statusLog, "FAILED")
          /\ UNCHANGED dbFailed
    /\ jpc' = "end"
    /\ UNCHANGED <<request, response, failureRecords, scrapeResult, pricingRows, pricingInserted>>
    /\ UNCHANGED validatorVars
    /\ UNCHANGED listVars
    /\ UNCHANGED scraperVars
    /\ UNCHANGED raceVars
    /\ UNCHANGED rateVars
    /\ UNCHANGED dbVars
    /\ UNCHANGED extractVars
    /\ UNCHANGED paramVars
    /\ UNCHANGED histVars
    /\ UNCHANGED acceptVars
    /\ UNCHANGED pollVars

JobNext ==
    \/ PostScrape
    \/ SendStarted
    \/ BackgroundStart
    \/ ScrapeReturns
    \/ RecordFailure
    \/ RecordSuccess
    \/ AutoAccept
    \/ OuterCatch
    \/ ScrapeNext

SpecJob == JobInit /\ [][JobNext]_vars

\* a request that passes the validation of lines 248-260
JobLiveInit ==
    /\ JobInit
    /\ request = [ from_port |-> Some("INNSA"), to_port |-> Some("INNSA"),
                   container_type |-> None ]

\* every step of the handler, of the background job and of the scraper run is taken
\* once it can be: the event loop runs each continuation, every wait of the run has a timeout
SpecJobLive == JobLiveInit /\ [][JobNext]_vars /\ WF_vars(JobNext)

----------------------------------------------------------------------------
(* The rate limiter middleware of the server entry point: requests of      *)
(* several clients arrive while the clock runs                             *)

RATE_LIMIT_WINDOW == 3      \* process.env.RATE_LIMIT_WINDOW_MS, in clock ticks
RATE_LIMIT_REQUESTS == 2    \* process.env.RATE_LIMIT_REQUESTS
MaxClock == 5               \* the clock runs from 0 to MaxClock
MaxServed == 5              \* requests handled in one behaviour

\* req.ip of the clients
IPs == { "10.0.0.1", "10.0.0.2" }

\* line 43: Array.prototype.filter keeps the timestamps of ipRequests that are
\* still inside the window at time t
RECURSIVE validRequests(_, _)
validRequests(ipRequests, t) ==
    IF ipRequests = <<>> THEN <<>>
    ELSE IF t - ipRequests[1] < RATE_LIMIT_WINDOW
         THEN <<ipRequests[1]>> \o validRequests(Tail(ipRequests), t)
         ELSE validRequests(Tail(ipRequests), t)

\* variant: one request more than the limit is admitted
LimitReachedAbove(valid) == Len(valid) > RATE_LIMIT_REQUESTS

\* line 46
LimitReached(valid) == Len(valid) >= RATE_LIMIT_REQUESTS

RateInit ==
    /\ RateIdle
    /\ ValidatorIdle
    /\ ListIdle
    /\ ScraperIdle
    /\ RaceIdle
    /\ JobIdle
    /\ DbIdle
    /\ ExtractIdle
    /\ ParamsIdle
    /\ HistIdle
    /\ AcceptIdle
    /\ PollIdle

\* lines 32-56: the middleware handles one request of the client ip
rateLimiter(ip) ==
    /\ served < MaxServed
    /\ served' = served + 1
    /\ LET valid == validRequests(requestCounts[ip], dateNow)
       IN  IF LimitReached(valid)
           THEN /\ requestCounts' = [ requestCounts EXCEPT ![ip] = valid ]
                /\ rateResponse' = Some([ ip |-> ip, status |-> "429" ])
                /\ UNCHANGED passed
           ELSE /\ requestCounts' = [ requestCounts EXCEPT ![ip] = Append(valid, dateNow) ]
                /\ rateResponse' = Some([ ip |-> ip, status |-> "next" ])
                /\ passed' = [ passed EXCEPT ![ip] = Append(@, dateNow) ]
    /\ UNCHANGED dateNow
    /\ UNCHANGED validatorVars
    /\ UNCHANGED listVars
    /\ UNCHANGED scraperVars
    /\ UNCHANGED raceVars
    /\ UNCHANGED jobVars
    /\ UNCHANGED dbVars
    /\ UNCHANGED extractVars
    /\ UNCHANGED paramVars
    /\ UNCHANGED histVars
    /\ UNCHANGED acceptVars
    /\ UNCHANGED pollVars

Request == \E ip \in IPs : rateLimiter(ip)

\* time passes between two requests
ClockTick ==
    /\ dateNow < MaxClock
    /\ dateNow' = dateNow + 1
    /\ UNCHANGED <<requestCounts, served, passed, rateResponse>>
    /\ UNCHANGED validatorVars
    /\ UNCHANGED listVars
    /\ UNCHANGED scraperVars
    /\ UNCHANGED raceVars
    /\ UNCHANGED jobVars
    /\ UNCHANGED dbVars
    /\ UNCHANGED extractVars
    /\ UNCHANGED paramVars
    /\ UNCHANGED histVars
    /\ UNCHANGED acceptVars
    /\ UNCHANGED pollVars

RateNext ==
    \/ Request
    \/ ClockTick

SpecRate == RateInit /\ [][RateNext]_vars

----------------------------------------------------------------------------
(* db/database.js: initDbAsync called by several callers, getDb, and the   *)
(* statements run through the wrapper                                      *)

MaxCallers == 3         \* initDbAsync() calls in one behaviour
MaxStatements == 2      \* exec/run calls in one behaviour

\* variant: every call starts an initialization
NeedsInitAlways == TRUE

\* line 118: !_ready
NeedsInit == ready = None

DbInit ==
    /\ DbIdle
    /\ ValidatorIdle
    /\ ListIdle
    /\ ScraperIdle
    /\ RaceIdle
    /\ JobIdle
    /\ RateIdle
    /\ ExtractIdle
    /\ ParamsIdle
    /\ HistIdle
    /\ AcceptIdle
    /\ PollIdle

\* lines 117-122: one call of initDbAsync; the caller gets the promise _ready.
\* initDb() runs up to its first await before the assignment of line 119 returns.
initDbAsync ==
    /\ Len(callers) < MaxCallers
    /\ IF NeedsInit
       THEN /\ initRuns' = Append(initRuns, "pending")
            /\ ready' = Some(Len(initRuns) + 1)
       ELSE UNCHANGED <<initRuns, ready>>
    /\ callers' = Append(callers, [ promise |-> Val(ready'), state |-> "pending",
                                    value |-> None ])
    /\ UNCHANGED <<db, lastGet, memVersion, diskVersion, runReport>>
    /\ UNCHANGED validatorVars
    /\ UNCHANGED listVars
    /\ UNCHANGED scraperVars
    /\ UNCHANGED raceVars
    /\ UNCHANGED jobVars
    /\ UNCHANGED rateVars
    /\ UNCHANGED extractVars
    /\ UNCHANGED paramVars
    /\ UNCHANGED histVars
    /\ UNCHANGED acceptVars
    /\ UNCHANGED pollVars

\* lines 98-110 and the then-callback of line 119: a run of initDb settles; when it
\* fulfils with the wrapper it made, the callback stores that wrapper in _db
InitDbSettles ==
    /\ \E k \in 1..Len(initRuns) :
         /\ initRuns[k] = "pending"
         /\ \/ \* initSqlJs rejects, or readFileSync or initTables throws
               /\ initRuns' = [ initRuns EXCEPT ![k] = "rejected" ]
               /\ UNCHANGED db
            \/ /\ initRuns' = [ initRuns EXCEPT ![k] = "fulfilled" ]
               /\ db' = Some(k)
    /\ UNCHANGED <<ready, callers, lastGet, memVersion, diskVersion, runReport>>
    /\ UNCHANGED validatorVars
    /\ UNCHANGED listVars
    /\ UNCHANGED scraperVars
    /\ UNCHANGED raceVars
    /\ UNCHANGED jobVars
    /\ UNCHANGED rateVars
    /\ UNCHANGED extractVars
    /\ UNCHANGED paramVars
    /\ UNCHANGED histVars
    /\ UNCHANGED acceptVars
    /\ UNCHANGED pollVars

\* the promise a caller awaits settles for that caller
CallerSettles ==
    /\ \E c \in 1..Len(callers) :
         /\ callers[c].state = "pending"
         /\ initRuns[callers[c].promise] # "pending"
         /\ callers' = [ callers EXCEPT ![c] =
                IF initRuns[callers[c].promise] = "fulfilled"
                THEN [ @ EXCEPT !.state = "resolved", !.value = Some(callers[c].promise) ]
                ELSE [ @ EXCEPT !.state = "rejected" ] ]
    /\ UNCHANGED <<ready, db, initRuns, lastGet, memVersion, diskVersion, runReport>>
    /\ UNCHANGED validatorVars
    /\ UNCHANGED listVars
    /\ UNCHANGED scraperVars
    /\ UNCHANGED raceVars
    /\ UNCHANGED jobVars
    /\ UNCHANGED rateVars
    /\ UNCHANGED extractVars
    /\ UNCHANGED paramVars
    /\ UNCHANGED histVars
    /\ UNCHANGED acceptVars
    /\ UNCHANGED pollVars

\* lines 112-115
getDb ==
    /\ lastGet' = Some([ throws |-> db = None, value |-> db ])
    /\ lastGet' # lastGet
    /\ UNCHANGED <<ready, db, initRuns, callers, memVersion, diskVersion, runReport>>
    /\ UNCHANGED validatorVars
    /\ UNCHANGED listVars
    /\ UNCHANGED scraperVars
    /\ UNCHANGED raceVars
    /\ UNCHANGED jobVars
    /\ UNCHANGED rateVars
    /\ UNCHANGED extractVars
    /\ UNCHANGED paramVars
    /\ UNCHANGED histVars
    /\ UNCHANGED acceptVars
    /\ UNCHANGED pollVars

\* lines 22-25 and 32-40 with _save (lines 87-95): one exec or run call on the wrapper
RunStatement ==
    /\ db # None
    /\ memVersion < MaxStatements
    /\ \/ \* this._db.run throws (an SQL error): nothing is applied, the caller sees it
          /\ runReport' = Some("throws")
          /\ UNCHANGED <<memVersion, diskVersion>>
       \/ \* the statement is applied and the file is written
          /\ memVersion' = memVersion + 1
          /\ diskVersion' = memVersion + 1
          /\ runReport' = Some("ok")
       \/ \* the statement is applied, export or writeFileSync throws inside _save,
          \* the catch of line 92 logs it and the call returns normally
          /\ memVersion' = memVersion + 1
          /\ UNCHANGED diskVersion
          /\ runReport' = Some("ok")
    /\ UNCHANGED <<ready, db, initRuns, callers, lastGet>>
    /\ UNCHANGED validatorVars
    /\ UNCHANGED listVars
    /\ UNCHANGED scraperVars
    /\ UNCHANGED raceVars
    /\ UNCHANGED jobVars
    /\ UNCHANGED rateVars
    /\ UNCHANGED extractVars
    /\ UNCHANGED paramVars
    /\ UNCHANGED histVars
    /\ UNCHANGED acceptVars
    /\ UNCHANGED pollVars

DbNext ==
    \/ initDbAsync
    \/ InitDbSettles
    \/ CallerSettles
    \/ getDb
    \/ RunStatement

SpecDb == DbInit /\ [][DbNext]_vars

----------------------------------------------------------------------------
(* scraper/maersk.js: extractPricingCandidates as a function of the        *)
(* results page                                                            *)

MaxPageCards == 6       \* most elements the card locator matches

\* parseFloat of a capture that holds no digit (only commas)
NaN == -1

\* what the regular expressions of lines 1290-1307 find in the text of one card:
\* price is the capture of /USD\s*([\d,]+)/i (None without a match), transit the
\* capture of /(\d+)\s*days?/i, service the word tested at lines 1302-1303;
\* a card that is not readable rejects textContent().  The component prices
\* (ocean, thc) are not part of the model.
CardTexts ==
    { [ readable |-> FALSE, price |-> None, transit |-> None, service |-> "STANDARD" ],
      [ readable |-> TRUE, price |-> None, transit |-> Some(12), service |-> "STANDARD" ],
      [ readable |-> TRUE, price |-> Some(0), transit |-> Some(12), service |-> "STANDARD" ],
      [ readable |-> TRUE, price |-> Some(1500), transit |-> Some(12), service |-> "STANDARD" ],
      [ readable |-> TRUE, price |-> Some(1500), transit |-> Some(12), service |-> "EXPRESS" ],
      [ readable |-> TRUE, price |-> Some(2000), transit |-> None, service |-> "ECONOMY" ] }

\* what the regular expressions of lines 1266-1267 find in document.body.innerText
PageTexts ==
    [ readable : BOOLEAN, price : {None, Some(NaN), Some(0), Some(1500)},
      transit : {None, Some(12)} ]

NoText == [ readable |-> TRUE, price |-> None, transit |-> None ]

ResultsPages ==
    { [ locatorThrows |-> TRUE, cards |-> <<>>, text |-> NoText ] }
    \cup { [ locatorThrows |-> FALSE, cards |-> <<>>, text |-> t ] : t \in PageTexts }
    \cup { [ locatorThrows |-> FALSE, cards |-> cs, text |-> NoText ] :
             cs \in UNION { [ 1..k -> CardTexts ] : k \in 1..MaxPageCards } }

\* lines 1269-1279: the candidate of the text fallback
TextCandidate(text) ==
    [ price |-> Val(text.price),
      total_price |-> Val(text.price),
      currency |-> "USD",
      transit_days |-> text.transit,
      service_type |-> "STANDARD",
      carrier |-> "Maersk",
      valid_until |-> Some(7),          \* Date.now() + 7 days
      confidence_score |-> 60 ]

\* variant: a price card yields a candidate as confident as a simulated one
CardCandidateConfident(card) ==
    [ price |-> Val(card.price),
      total_price |-> Val(card.price),
      currency |-> "USD",
      transit_days |-> card.transit,
      service_type |-> card.service,
      carrier |-> "Maersk",
      valid_until |-> Some(7),
      confidence_score |-> 85 ]

\* lines 1308-1321: the candidate of a price card
CardCandidate(card) ==
    [ price |-> Val(card.price),
      total_price |-> Val(card.price),
      currency |-> "USD",
      transit_days |-> card.transit,
      service_type |-> card.service,
      carrier |-> "Maersk",
      valid_until |-> Some(7),          \* Date.now() + 7 days
      confidence_score |-> 75 ]

\* lines 1290-1295: the card yields a candidate
CardHasPrice(card) ==
    /\ card.readable
    /\ card.price # None
    /\ Val(card.price) # NaN
    /\ Val(card.price) > 0

\* lines 1284-1325: the loop over the cards
RECURSIVE CardCandidates(_)
CardCandidates(cards) ==
    IF cards = <<>> THEN <<>>
    ELSE IF CardHasPrice(Head(cards))
         THEN <<CardCandidate(Head(cards))>> \o CardCandidates(Tail(cards))
         ELSE CardCandidates(Tail(cards))

\* line 1284: priceCards.slice(0, 5)
FirstFive(cards) == SubSeq(cards, 1, IF Len(cards) < 5 THEN Len(cards) ELSE 5)

\* line 1332: candidates.sort((a, b) => a.price - b.price), a stable sort
RECURSIVE InsertByPrice(_, _)
InsertByPrice(c, sorted) ==
    IF sorted = <<>> THEN <<c>>
    ELSE IF c.price < Head(sorted).price
         THEN <<c>> \o sorted
         ELSE <<Head(sorted)>> \o InsertByPrice(c, Tail(sorted))

RECURSIVE SortByPrice(_)
SortByPrice(list) ==
    IF list = <<>> THEN <<>>
    ELSE InsertByPrice(list[Len(list)], SortByPrice(SubSeq(list, 1, Len(list) - 1)))

\* lines 1256-1335
extractPricingCandidates(pg) ==
    IF pg.locatorThrows THEN <<>>
    ELSE IF pg.cards = <<>>
         THEN IF pg.text.readable /\ pg.text.price # None
              THEN <<TextCandidate(pg.text)>>
              ELSE <<>>
         ELSE SortByPrice(CardCandidates(FirstFive(pg.cards)))

ExtractInit ==
    /\ resultsPage \in { Some(pg) : pg \in ResultsPages }
    /\ extracted = None
    /\ ValidatorIdle
    /\ ListIdle
    /\ ScraperIdle
    /\ RaceIdle
    /\ JobIdle
    /\ RateIdle
    /\ DbIdle
    /\ ParamsIdle
    /\ HistIdle
    /\ AcceptIdle
    /\ PollIdle

\* one call of extractPricingCandidates on the page
ExtractCandidates ==
    /\ resultsPage # None
    /\ extracted = None
    /\ extracted' = Some(extractPricingCandidates(Val(resultsPage)))
    /\ UNCHANGED resultsPage
    /\ UNCHANGED validatorVars
    /\ UNCHANGED listVars
    /\ UNCHANGED scraperVars
    /\ UNCHANGED raceVars
    /\ UNCHANGED jobVars
    /\ UNCHANGED rateVars
    /\ UNCHANGED dbVars
    /\ UNCHANGED paramVars
    /\ UNCHANGED histVars
    /\ UNCHANGED acceptVars
    /\ UNCHANGED pollVars

ExtractNext == ExtractCandidates

SpecExtract == ExtractInit /\ [][ExtractNext]_vars

----------------------------------------------------------------------------
(* The container type and the weight of a request on their way from        *)
(* POST /scrape (routes/pricing.js) to the booking form (scraper/maersk.js) *)

\* CONTAINER_MAP (maersk.js:37-45)
CONTAINER_MAP ==
    [ code \in { "20FT", "40FT", "40HC", "40HIGH", "45FT", "REEFER", "OOG" } |->
        CASE code = "20FT" -> "20' Dry"
          [] code = "40FT" -> "40' Dry"
          [] code = "40HC" -> "40' High Cube Dry"
          [] code = "40HIGH" -> "40' High Cube Dry"
          [] code = "45FT" -> "45' High Cube Dry"
          [] code = "REEFER" -> "40' Reefer High Cube"
          [] code = "OOG" -> "40' Open Top" ]

\* the values of CONTAINER_TYPES, the options of the scrape form's container select
CONTAINER_TYPES == { "20DRY", "40DRY", "40HIGH", "45HIGH" }

\* container_type values of a request body: the codes, other spellings of them, the
\* display formats, a carrier label, unknown strings, the empty string, and the
\* values the scrape form sends
ContainerStrings ==
    { "20FT", "40FT", "40HC", "40HIGH", "45FT", "REEFER", "OOG",
      "40ft", " 40hc ", "20 Dry", "40 Dry", "40 High Cube Dry", "40 Reefer High Cube",
      "40 Open Top", "45 High Cube Dry", "40' High Cube Dry", "40 Dry Standard", "BAD", "" }
    \cup CONTAINER_TYPES

\* weight_per_container values of a request body, in the unit of the request
Weights == { 1, 1000, 2205 }

ParamsSet ==
    [ container_type : { None } \cup { Some(str) : str \in ContainerStrings },
      weight_per_container : { None } \cup { Some(w) : w \in Weights },
      weight_unit : { None, Some("kg"), Some("lb") } ]

ParamsInit ==
    /\ params \in ParamsSet
    /\ ppc = "request"
    /\ storedType = None
    /\ optionLabel = None
    /\ formContainer = None
    /\ formWeight = None
    /\ ValidatorIdle
    /\ ListIdle
    /\ ScraperIdle
    /\ RaceIdle
    /\ JobIdle
    /\ RateIdle
    /\ DbIdle
    /\ ExtractIdle
    /\ HistIdle
    /\ AcceptIdle
    /\ PollIdle

\* pricing.js:238-283 on the container type of the body: the test of line 249 and the
\* code stored on the scrape_jobs row (line 264)
StoreJobParams ==
    /\ ppc = "request"
    /\ IF ~validateContainerType(params.container_type)
       THEN /\ ppc' = "rejected"
            /\ UNCHANGED storedType
       ELSE /\ storedType' = IF normalizeContainerType(params.container_type) # None
                             THEN normalizeContainerType(params.container_type)
                             ELSE Some("40FT")
            /\ ppc' = "stored"
    /\ UNCHANGED <<params, optionLabel, formContainer, formWeight>>
    /\ UNCHANGED validatorVars
    /\ UNCHANGED listVars
    /\ UNCHANGED scraperVars
    /\ UNCHANGED raceVars
    /\ UNCHANGED jobVars
    /\ UNCHANGED rateVars
    /\ UNCHANGED dbVars
    /\ UNCHANGED extractVars
    /\ UNCHANGED histVars
    /\ UNCHANGED acceptVars
    /\ UNCHANGED pollVars

\* maersk.js:409-415: container_type of the body handed over at pricing.js:304, with its
\* default for a missing field
ScraperContainerType == IF params.container_type = None THEN "40FT"
                        ELSE Val(params.container_type)

\* maersk.js:877-1058 on the container type and the weight: the block of line 1006
\* looks for the label of the request's container_type and selects it when the form
\* shows the control and the option; no statement of the form filling reads
\* weight_per_container or weight_unit
FillContainerAndWeight ==
    /\ ppc = "stored"
    /\ ppc' = "filled"
    /\ IF ScraperContainerType # "" /\ ScraperContainerType \in DOMAIN CONTAINER_MAP
       THEN /\ optionLabel' = Some(CONTAINER_MAP[ScraperContainerType])
            /\ \/ formContainer' = optionLabel'
               \/ \* no selector of lines 1009-1015 is visible, or the option is not found
                  formContainer' = None
       ELSE /\ optionLabel' = None
            /\ formContainer' = None
    /\ UNCHANGED <<params, storedType, formWeight>>
    /\ UNCHANGED validatorVars
    /\ UNCHANGED listVars
    /\ UNCHANGED scraperVars
    /\ UNCHANGED raceVars
    /\ UNCHANGED jobVars
    /\ UNCHANGED rateVars
    /\ UNCHANGED dbVars
    /\ UNCHANGED extractVars
    /\ UNCHANGED histVars
    /\ UNCHANGED acceptVars
    /\ UNCHANGED pollVars

ParamsNext == StoreJobParams \/ FillContainerAndWeight

SpecParams == ParamsInit /\ [][ParamsNext]_vars

----------------------------------------------------------------------------
(* Properties of the scraper run                                           *)

LoginInteractions == { "type_credentials", "submit_credentials" }

\* the run is at the username probe or beyond it on the login paths
LoginPcs ==
    { "login", "credentials", "login_poll", "recovery", "accounts_login", "consent",
      "login_failed", "portal" }

ReasonOf(o) == IF Val(o).reason_code = None THEN "" ELSE Val(Val(o).reason_code)

\* C6: when a captcha or anti-bot indicator is detected on the page reached by the
\* navigation, the run returns FAILED with CAPTCHA_DETECTED and never types or submits
\* credentials nor fills the form, whatever else the page shows.
C6_CaptchaTerminal ==
    (page # None /\ detectCaptcha(Val(page))) =>
        /\ trail \cap (LoginInteractions \cup { "fill_form", "click_submit" }) = {}
        /\ pc \notin LoginPcs \cup { "login_check", "fill", "submit", "wait" }
        /\ outcome # None =>
             Val(outcome).status = "FAILED" /\ ReasonOf(outcome) = "CAPTCHA_DETECTED"

\* C7: every page for which detectAccessDenied returns true and that shows no captcha
\* indicator ends the run with ACCESS_DENIED before any login attempt.
C7_AccessDeniedTerminal ==
    (page # None /\ detectAccessDenied(Val(page)) /\ ~detectCaptcha(Val(page))) =>
        /\ trail \cap LoginInteractions = {}
        /\ pc \in { "classify", "denied", "done" }
        /\ outcome # None => ReasonOf(outcome) = "ACCESS_DENIED"

\* the page reached by the navigation shows a booking-form marker and neither a
\* captcha nor the access-denied state the run tests for
SessionValid ==
    /\ page # None
    /\ Val(page).markers # {}
    /\ ~detectCaptcha(Val(page))
    /\ ~InlineAccessDenied(Val(page))

ReasonVocabulary ==
    { "CAPTCHA_DETECTED", "ACCESS_DENIED", "LOGIN_FAILED", "RATE_LIMITED", "UNKNOWN_STATE",
      "FORM_ERROR", "FORM_INCOMPLETE", "NO_ROUTES", "WEBSITE_ERROR", "TIMEOUT", "PARSE_ERROR",
      "SCRAPER_ERROR", "ANTI_BOT_DETECTED" }

\* C9: every outcome whose status is not SUCCESS carries a reason_code of the fixed
\* vocabulary, on every failure path.
C9_ReasonVocabulary ==
    (outcome # None /\ Val(outcome).status # "SUCCESS") =>
        /\ Val(outcome).reason_code # None
        /\ Val(Val(outcome).reason_code) \in ReasonVocabulary

\* C10: every outcome whose status is not SUCCESS carries a non-null snapshot_id of a
\* snapshot saved during the run, the outcomes of the catch block included.
C10_SnapshotOnFailure ==
    (outcome # None /\ Val(outcome).status # "SUCCESS") =>
        /\ Val(outcome).snapshot_id # None
        /\ Val(Val(outcome).snapshot_id) \in savedSnapshots

\* the positions from which the run returns a failure after taking a snapshot, and the
\* reason codes of the return at each
TerminalPcs == { "captcha", "denied", "login_failed", "form_error", "form_incomplete" }

TerminalReasons(p) ==
    CASE p = "captcha" -> { "CAPTCHA_DETECTED" }
      [] p = "denied" -> { "ACCESS_DENIED" }
      [] p = "login_failed" -> { "LOGIN_FAILED", "OAUTH_GRANT_FAILED" }
      [] p = "form_error" -> { "FORM_ERROR" }
      [] p = "form_incomplete" -> { "FORM_INCOMPLETE" }

\* C11: the step that leaves a terminal path returns the outcome with the reason code
\* of that path, also when saving the snapshot fails: a snapshot failure never hands
\* the run to a handler that reports another error.
C11_SnapshotFailureKeepsReason ==
    [][(pc \in TerminalPcs /\ pc' # pc) =>
          /\ pc' = "done"
          /\ outcome' # None
          /\ ReasonOf(outcome') \in TerminalReasons(pc)]_vars

\* C12: when the submit control is not located the run ends with FORM_ERROR, when it
\* is located but still disabled after the wait it ends with FORM_INCOMPLETE; in both
\* cases the outcome has a non-null snapshot_id and the control was never clicked.
C12_SubmitFailures ==
    /\ [](pc \in { "form_error", "form_incomplete" } => "click_submit" \notin trail)
    /\ [][(pc \in { "form_error", "form_incomplete" } /\ pc' # pc) =>
            /\ "click_submit" \notin trail'
            /\ outcome' # None
            /\ Val(outcome').status = "FAILED"
            /\ ReasonOf(outcome') = (IF pc = "form_error" THEN "FORM_ERROR" ELSE "FORM_INCOMPLETE")
            /\ Val(outcome').snapshot_id # None]_vars

\* C13: when the results wait reported success, the extraction step returns FAILED with
\* PARSE_ERROR and no candidates if it extracted none, and SUCCESS otherwise; every
\* SUCCESS outcome carries at least one candidate.
C13_ParseErrorOnEmpty ==
    /\ [][(pc = "extract" /\ pc' # pc) =>
            /\ waitResult = Some("SUCCESS")
            /\ outcome' # None
            /\ \/ /\ Val(outcome').status = "FAILED"
                  /\ ReasonOf(outcome') = "PARSE_ERROR"
                  /\ Val(outcome').candidates = 0
               \/ /\ Val(outcome').status = "SUCCESS"
                  /\ Val(outcome').candidates >= 1]_vars
    /\ []((outcome # None /\ Val(outcome).status = "SUCCESS") => Val(outcome).candidates >= 1)

\* C13 witness: a run whose wait ended on a results card returned PARSE_ERROR
C13_Witness ==
    /\ pc = "done"
    /\ waitResult = Some("SUCCESS")
    /\ outcome # None
    /\ Val(outcome).status = "FAILED"
    /\ ReasonOf(outcome) = "PARSE_ERROR"
    /\ Val(outcome).candidates = 0

\* a port field that is absent, empty or blank
MissingPort(port) == port \in { None, Some(""), Some("  ") }

\* C14: a request whose origin or destination is missing is answered INVALID_REQUEST
\* and nothing else happens: no job row, no scraper call, no browser context.
C14_MissingPortRejected ==
    (MissingPort(request.from_port) \/ MissingPort(request.to_port)) =>
        /\ jobStatus = None
        /\ statusLog = <<>>
        /\ jpc \in { "idle", "request", "end" }
        /\ pc = "idle"
        /\ context = "none"
        /\ scrapeResult = None
        /\ jpc = "end" => response = Some("INVALID_REQUEST")

\* C14 witness: a request without origin has been answered
C14_Witness ==
    /\ jpc = "end"
    /\ request.from_port = None
    /\ request.to_port = Some("INNSA")
    /\ response = Some("INVALID_REQUEST")
    /\ jobStatus = None

\* watcher i becomes visible within the 35 s bound
VisibleInTime(v, i) == v[i] # None /\ Val(v[i]) < 35000

\* C15: the result of the wait is the watcher that becomes visible first; it is TIMEOUT
\* only if no watcher becomes visible within the bound, and a watcher that times out
\* never overrides one that has become visible.
C15_FirstVisibleWins ==
    (watchers # None /\ waitResult # None) =>
        LET v == Val(watchers)
        IN  /\ (waitResult = Some("TIMEOUT")) <=> (\A i \in 1..3 : ~VisibleInTime(v, i))
            /\ \A i \in 1..3 :
                 waitResult = Some(Watchers[i]) =>
                     /\ VisibleInTime(v, i)
                     /\ \A j \in 1..3 : VisibleInTime(v, j) => Val(v[i]) <= Val(v[j])

\* C15 witness: the error banner was visible first, a results card later, one
\* watcher timed out; the result is ERROR
C15_Witness ==
    /\ watchers = Some(<< Some(34999), Some(1000), None >>)
    /\ waitResult = Some("ERROR")

\* C16: the job row exists with status RUNNING before the STARTED response and before
\* the scrape begins; the status is written at most once more, to SUCCESS or FAILED.
C16_StatusWrittenOnce ==
    /\ response = Some("STARTED") => jobStatus # None
    /\ (pc # "idle" \/ scrapeResult # None) => jobStatus # None
    /\ statusLog # <<>> => statusLog[1] = "RUNNING"
    /\ Len(statusLog) <= 2
    /\ Len(statusLog) = 2 => statusLog[2] \in { "SUCCESS", "FAILED" }
    /\ jobStatus = IF statusLog = <<>> THEN None ELSE Some(statusLog[Len(statusLog)])

\* C16 witness: the auto-accept step of a SUCCESS job failed and the job is still SUCCESS
C16_Witness ==
    /\ jpc = "end"
    /\ statusLog = << "RUNNING", "SUCCESS" >>
    /\ "insert_pricing" \in dbFailed

C18_FailedHasReason ==
    (jpc = "end" /\ jobStatus = Some("FAILED")) => failureRecords # {}

RetryInteractions == { "goto", "type_credentials", "submit_credentials" }

\* C19: once the browser context is gone the run makes no further navigation, login
\* or consent attempt, and its outcome carries the reason CONTEXT_DESTROYED.
C19_ContextDestroyedIsFatal ==
    /\ []((context = "destroyed" /\ outcome # None) => ReasonOf(outcome) = "CONTEXT_DESTROYED")
    /\ [][context = "destroyed" =>
            /\ trail' \cap RetryInteractions = trail \cap RetryInteractions
            /\ consentAttempt' = consentAttempt]_vars

\* C20: the consent flow is attempted at most three times and only after an OAuth
\* access_token failure; the failure return of the login path, taken without a
\* visible booking form, returns LOGIN_FAILED.
C20_BoundedLoginRetries ==
    /\ [](consentAttempt <= 3 /\ (consentAttempt > 0 => oauthGrantFailed))
    /\ [][(pc = "login_failed" /\ ~recovered /\ pc' = "done") =>
            (outcome' # None /\ ReasonOf(outcome') = "LOGIN_FAILED")]_vars

----------------------------------------------------------------------------
(* Properties of the rate limiter                                          *)

\* the requests of ip handed to next() at a time t with s <= t < s + RATE_LIMIT_WINDOW
AdmittedInWindow(ip, s) ==
    Cardinality({ k \in 1..Len(passed[ip]) :
                    s <= passed[ip][k] /\ passed[ip][k] < s + RATE_LIMIT_WINDOW })

\* the requests of ip handed to next() less than RATE_LIMIT_WINDOW before the time t
AdmittedRecently(ip, t) ==
    Cardinality({ k \in 1..Len(passed[ip]) : t - passed[ip][k] < RATE_LIMIT_WINDOW })

\* C21: for each IP at most RATE_LIMIT_REQUESTS requests are handed to next() within
\* any window of RATE_LIMIT_WINDOW ticks; a request that arrives when the limit is
\* reached is answered 429 and not handed on, any other request is handed on, and a
\* request of one IP leaves the record of every other IP as it is.
C21_RateLimit ==
    /\ [](\A ip \in IPs : \A s \in 0..MaxClock : AdmittedInWindow(ip, s) <= RATE_LIMIT_REQUESTS)
    /\ [][served' # served =>
            LET ip == Val(rateResponse').ip
            IN  /\ IF AdmittedRecently(ip, dateNow) >= RATE_LIMIT_REQUESTS
                   THEN /\ Val(rateResponse').status = "429"
                        /\ passed' = passed
                   ELSE /\ Val(rateResponse').status = "next"
                        /\ passed' = [ passed EXCEPT ![ip] = Append(@, dateNow) ]
                /\ \A other \in IPs \ { ip } :
                     requestCounts'[other] = requestCounts[other]]_vars

\* C21 witness: a client at its limit has just been answered 429 while the other
\* client, with requests of its own in the window, has not used up its limit
C21_Witness ==
    /\ rateResponse = Some([ ip |-> "10.0.0.1", status |-> "429" ])
    /\ AdmittedRecently("10.0.0.1", dateNow) = RATE_LIMIT_REQUESTS
    /\ AdmittedRecently("10.0.0.2", dateNow) = 1

----------------------------------------------------------------------------
(* Properties of the database layer                                        *)

\* C22: however many initDbAsync calls are made, initDb runs exactly once; every call
\* that resolves resolves to the wrapper of that run, which is the one in _db; getDb
\* throws as long as no run has completed and returns that wrapper afterwards.
C22_InitOnce ==
    /\ [](/\ callers # <<>> => Len(initRuns) = 1
          /\ \A c \in 1..Len(callers) :
               /\ callers[c].promise = 1
               /\ callers[c].state = "resolved" => (callers[c].value = Some(1) /\ db = Some(1))
          /\ (db = None) <=> (\A k \in 1..Len(initRuns) : initRuns[k] # "fulfilled")
          /\ db # None => db = Some(1))
    /\ [][lastGet' # lastGet =>
            /\ Val(lastGet').throws <=> (\A k \in 1..Len(initRuns) : initRuns[k] # "fulfilled")
            /\ ~Val(lastGet').throws => Val(lastGet').value = Some(1)]_vars

\* C22 witness: three calls made before the initialization completed have all resolved
\* to the same wrapper, getDb threw before and returns the wrapper now
C22_Witness ==
    /\ Len(callers) = MaxCallers
    /\ \A c \in 1..Len(callers) : callers[c].state = "resolved" /\ callers[c].value = db
    /\ Len(initRuns) = 1
    /\ lastGet = Some([ throws |-> FALSE, value |-> db ])

\* C23: a statement reported as successful to the caller of exec/run has been written
\* to the database file.
C23_SaveFailureThrown ==
    runReport = Some("ok") => diskVersion = memVersion

----------------------------------------------------------------------------
(* Properties of the extractor                                             *)

\* the composite key of a candidate; the candidates carry no departure_date
CompositeKey(c) == <<c.price, c.currency, None, c.transit_days>>

\* C24: the list the extractor returns never holds two entries with the same
\* composite key (price, currency, departure_date, transit_days).
C24_NoDuplicateKeys ==
    extracted # None =>
        \A i, j \in 1..Len(Val(extracted)) :
            i # j => CompositeKey(Val(extracted)[i]) # CompositeKey(Val(extracted)[j])

MajorCurrencies == {"USD", "EUR", "GBP"}

\* the weighted sum of the signals, in hundredths
WeightedScore(c) ==
    10 + (IF c.price # NaN /\ c.price > 0 THEN 35 ELSE 0)
       + (IF c.currency \in MajorCurrencies THEN 20 ELSE 0)
       + (IF c.transit_days # None /\ Val(c.transit_days) >= 1 /\ Val(c.transit_days) < 90
          THEN 20 ELSE 0)
       + (IF c.valid_until # None THEN 15 ELSE 0)

\* the candidate of the example: positive price, USD, 12 transit days, future expiry
IsExampleCandidate(c) ==
    /\ c.price # NaN /\ c.price > 0
    /\ c.currency = "USD"
    /\ c.transit_days = Some(12)
    /\ c.valid_until # None /\ Val(c.valid_until) > 0

\* C25: the confidence_score of every extracted candidate is the weighted sum of its
\* signals, and the candidate of the example scores 0.90 (either value is accepted
\* for it here).
C25_WeightedConfidence ==
    extracted # None =>
        \A i \in 1..Len(Val(extracted)) :
            LET c == Val(extracted)[i]
            IN  \/ c.confidence_score = WeightedScore(c)
                \/ IsExampleCandidate(c) /\ c.confidence_score = 90

----------------------------------------------------------------------------
(* Properties of the request parameters                                    *)

\* C26: for every container_type POST /scrape recognises, the label the scraper looks
\* for on the form is CONTAINER_MAP of the normalized code stored on the job.
C26_FormUsesStoredType ==
    (ppc = "filled" /\ normalizeContainerType(params.container_type) # None) =>
        /\ storedType = normalizeContainerType(params.container_type)
        /\ optionLabel = Some(CONTAINER_MAP[Val(storedType)])

\* round(lb * 0.453592, 2) kilograms, in hundredths of a kilogram
PoundsToKg(lb) == (lb * 453592 + 5000) \div 10000

\* C27: a weight given in pounds is entered on the form as round(lb * 0.453592, 2)
\* kilograms, a weight given in kilograms as it was supplied.
C27_WeightInKilograms ==
    (ppc = "filled" /\ params.weight_per_container # None) =>
        formWeight = Some(IF params.weight_unit = Some("lb")
                          THEN PoundsToKg(Val(params.weight_per_container))
                          ELSE 100 * Val(params.weight_per_container))

----------------------------------------------------------------------------
(* Properties of the auto-accept step                                      *)

\* C28: a scrape job inserts at most one row into pricing by itself, and only from a
\* candidate whose validation outcome is AUTO_ACCEPT with an empty issue list.
C28_AutoInsertOnlyAccepted ==
    /\ pricingRows <= 1
    /\ Len(pricingInserted) = pricingRows
    /\ \A i \in 1..Len(pricingInserted) :
         /\ pricingInserted[i].validation.outcome = "AUTO_ACCEPT"
         /\ pricingInserted[i].validation.issues = <<>>
    /\ jpc # "end" => pricingRows = 0

\* C28 witness: a finished job has inserted the one auto-accepted candidate
C28_Witness ==
    /\ jpc = "end"
    /\ jobStatus = Some("SUCCESS")
    /\ pricingRows = 1
    /\ pricingInserted[1].validation.outcome = "AUTO_ACCEPT"

----------------------------------------------------------------------------
(* Properties of the way into the form filling                             *)

\* C29: a run whose consent-retry loop made the booking form visible goes on to the
\* form filling.
C29_RecoveredRunFillsForm ==
    (pc = "done" /\ recovered) => "fill_form" \in trail

\* the positions from which the run can enter the form filling
FillEntries == { "classify", "login_check", "login_poll", "recovery", "accounts_login",
                 "portal" }

\* C30: the form filling starts only after a probe of the booking form returned true in
\* the same run, and never from a failed login, a failed recovery, the consent loop or
\* an exit.
C30_FillOnlyWhenVisible ==
    /\ []((pc = "fill" \/ "fill_form" \in trail) =>
             (bookingFormVisible \/ "booking_visible" \in trail))
    /\ [][(pc' = "fill" /\ pc # "fill") =>
            /\ pc \in FillEntries
            /\ pc # "classify" => "booking_visible" \in trail']_vars

\* C30 witness: the first probes failed, the login poll saw the form, and the origin
\* field is being filled
C30_Witness ==
    /\ "fill_form" \in trail
    /\ ~bookingFormVisible
    /\ "booking_visible" \in trail
    /\ "type_credentials" \in trail

----------------------------------------------------------------------------
(* Properties of the end of the run                                        *)

\* C31: a run that launched a browser context has closed it when it returns, on the
\* success path and on every failure path.
C31_ContextClosedOnReturn ==
    pc = "done" => context # "open"

\* C32: on the credential-login failure path OAUTH_GRANT_FAILED is reported only when
\* the consent-retry loop ran in that run: the flag reads the same where the retry is
\* decided and where the reason code is chosen.
C32_OAuthReasonAfterConsentLoop ==
    [][(pc = "login_failed" /\ pc' = "done" /\ outcome' # None
            /\ Val(outcome').reason_code = Some("OAUTH_GRANT_FAILED"))
        => consentAttempt > 0]_vars

\* C33: TIMEOUT is returned only when the results wait itself timed out; a wait that
\* ended on the error banner is reported as WEBSITE_ERROR and one that ended on the
\* no-results message as NO_ROUTES.
C33_TimeoutOnlyWhenWaitTimedOut ==
    [][(pc = "results_failed" /\ pc' = "done") =>
          /\ ReasonOf(outcome') = "TIMEOUT" => waitResult = Some("TIMEOUT")
          /\ waitResult = Some("ERROR") => ReasonOf(outcome') = "WEBSITE_ERROR"
          /\ waitResult = Some("NO_RESULTS") => ReasonOf(outcome') = "NO_ROUTES"]_vars

\* C34: FORM_INCOMPLETE is returned only if the submit control is still disabled after
\* the wait by the criterion of the first check (no disabled attribute, or the value
\* "false", is enabled); a control that reported itself enabled is clicked.
C34_EnabledControlIsSubmitted ==
    "submit_enabled" \in trail => (pc # "form_incomplete" /\ "click_submit" \in trail)

----------------------------------------------------------------------------
(* Properties of the validator's options                                   *)

\* the value of an option: the supplied one, the default only when it is absent
Supplied(x, d) == IF x # None THEN Val(x) ELSE d

IssueListed(r, code) == \E k \in 1..Len(r.issues) : r.issues[k] = code

\* C35: every threshold of validateCandidate is configuration: a supplied value, the
\* value 0 included, is the one applied to the transit window, the deviation check and
\* the auto-accept decision.
C35_SuppliedOptionsApplied ==
    \A k \in 1..Len(results) :
        LET r == results[k].result
        IN  /\ IssueListed(r, "TRANSIT_DAYS_OUT_OF_RANGE") <=>
                 /\ candidate.transit_days # None
                 /\ \/ Val(candidate.transit_days) < Supplied(opts.min_transit_days, DEFAULT_MIN_TRANSIT)
                    \/ Val(candidate.transit_days) > Supplied(opts.max_transit_days, DEFAULT_MAX_TRANSIT)
            /\ IssueListed(r, "DEVIATION_EXCEEDED") <=>
                 /\ Truthy(opts.historical_median)
                 /\ Supplied(opts.baseline_samples, 0)
                        >= Supplied(opts.min_baseline, DEFAULT_BASELINE_SAMPLES)
                 /\ candidate.price # None
                 /\ DeviationAbove(Val(candidate.price), Val(opts.historical_median),
                                   Supplied(opts.deviation_pct, DEFAULT_DEVIATION_PCT))
            /\ (r.issues = <<>>
                  /\ r.confidence >= Supplied(opts.auto_accept_threshold, DEFAULT_AUTO_ACCEPT))
                 => r.outcome = "AUTO_ACCEPT"

\* ---------------------------------------------------------------------------
\* Properties of the lane history
\* ---------------------------------------------------------------------------

\* C36 (as stated): a job run that reads a lane with five or more pricing rows passes
\* a non-null historical_median, the middle of the rows' sorted prices.
C36_MedianOfLaneRows ==
    [][(histOpts' # histOpts /\ Len(lanePricing) >= 5)
         => /\ Val(histOpts').historical_median # None
            /\ Val(histOpts').historical_median = historicalMedianOfTotals(lanePricing)]_vars

\* ---------------------------------------------------------------------------
\* Properties of the extracted candidates under the job's validation
\* ---------------------------------------------------------------------------

\* an extracted candidate as validateCandidates reads it at pricing.js:351
JobView(c) ==
    [ price |-> Some(c.price),
      currency |-> Some(c.currency),
      valid_until |-> Some([ iso |-> TRUE, t |-> Val(c.valid_until) ]),
      transit_days |-> c.transit_days,
      confidence_score |-> Some(c.confidence_score) ]

\* the validation of the k-th extracted candidate with the options o of a job run
ValidatedExtract(o, k) == validateCandidate(JobView(Val(extracted)[k]), o, now)

\* C37: under the thresholds of a job run no candidate produced by
\* extractPricingCandidates is validated as AUTO_ACCEPT: its confidence is 0.6 or
\* 0.75, below the threshold 0.8.
C37_ExtractedNeverAutoAccepted ==
    extracted # None =>
        \A k \in 1..Len(Val(extracted)) :
            /\ Val(extracted)[k].confidence_score \in { 60, 75 }
            /\ Val(extracted)[k].confidence_score < DEFAULT_AUTO_ACCEPT
            /\ \A o \in JobOpts : ValidatedExtract(o, k).outcome # "AUTO_ACCEPT"

\* a page with a price card whose candidate has no issue and is flagged for review
C37_Witness ==
    /\ extracted # None
    /\ Val(resultsPage).cards # <<>>
    /\ \E k \in 1..Len(Val(extracted)) :
         /\ Val(extracted)[k].confidence_score = 75
         /\ ValidatedExtract(NoOpts, k).issues = <<>>
         /\ ValidatedExtract(NoOpts, k).outcome = "FLAG_REVIEW"

\* ---------------------------------------------------------------------------
\* Properties of the container types of the scrape form
\* ---------------------------------------------------------------------------

\* C38 (as stated): a request whose container_type is one of the values selectable in
\* the scrape form passes the validation of POST /scrape and is stored as a code that
\* has a label in CONTAINER_MAP.
C38_FormTypesAccepted ==
    (params.container_type # None
     /\ Val(params.container_type) \in CONTAINER_TYPES
     /\ ppc # "request")
        => /\ ppc # "rejected"
           /\ storedType # None
           /\ Val(storedType) \in DOMAIN CONTAINER_MAP

----------------------------------------------------------------------------
(* routes/pricing.js: POST /accept                                         *)

MaxAccepts == 2         \* most pricing rows written in one behaviour
MaxStored == 2          \* most candidates in the result_json of the job

\* candidate_index values of a request body: numbers, and a string that names a
\* property of the array
Index(n) == [ kind |-> "number", n |-> n, name |-> "" ]
IndexName(str) == [ kind |-> "name", n |-> 0, name |-> str ]

AcceptBodies ==
    [ job_id : { None, Some(0), Some(1), Some(2) },
      candidate_index : { None, Some(Index(0)), Some(Index(1)), Some(Index(2)),
                          Some(Index(-1)), Some(IndexName("length")) },
      actor : { None, Some(""), Some("  "), Some("agent7") } ]

\* a candidate of result_json
StoredCandidate(k) == [ price |-> 1000 * k, total_price |-> 1000 * k, currency |-> "USD" ]

\* the scrape_jobs table: empty, or the job with id 1, whose result_json is null
\* (a job that is RUNNING or FAILED) or the array of its candidates
StoredJobs ==
    { None, Some([ result_json |-> None ]) }
    \cup { Some([ result_json |-> Some([ k \in 1..n |-> StoredCandidate(k) ]) ]) :
              n \in 0..MaxStored }

\* !actor || String(actor).trim() === ''
ActorMissing(actor) == actor = None \/ actor = Some("") \/ actor = Some("  ")

\* SELECT * FROM scrape_jobs WHERE id = ?
FindJob(job_id, jobs) == IF job_id = Some(1) THEN jobs ELSE None

\* JSON.parse(job.result_json || '[]')
ParseResultJson(job) == IF job.result_json = None THEN <<>> ELSE Val(job.result_json)

\* candidate_index || 0
IndexOrZero(index) == IF index = None \/ index = Some(Index(0)) THEN Index(0) ELSE Val(index)

\* variant: an index beyond the array picks the first candidate
CandidateAtOrFirst(cands, index) ==
    LET idx == IndexOrZero(index)
    IN  IF idx.kind = "number"
        THEN IF idx.n + 1 \in 1..Len(cands)
             THEN Some([ isCandidate |-> TRUE, pos |-> idx.n + 1 ])
             ELSE IF Len(cands) > 0 THEN Some([ isCandidate |-> TRUE, pos |-> 1 ]) ELSE None
        ELSE IF Len(cands) = 0 THEN None
             ELSE Some([ isCandidate |-> FALSE, pos |-> 0 ])

\* candidates[idx]: None when the value is falsy (undefined, or the length 0), else the
\* candidate at that position, or a value that is no candidate (the length of a
\* non-empty array)
CandidateAt(cands, index) ==
    LET idx == IndexOrZero(index)
    IN  IF idx.kind = "number"
        THEN IF idx.n + 1 \in 1..Len(cands)
             THEN Some([ isCandidate |-> TRUE, pos |-> idx.n + 1 ])
             ELSE None
        ELSE IF Len(cands) = 0 THEN None
             ELSE Some([ isCandidate |-> FALSE, pos |-> 0 ])

AcceptInit ==
    /\ apc = "request"
    /\ acceptBody \in AcceptBodies
    /\ storedJob \in StoredJobs
    /\ acceptResponse = None
    /\ acceptPricing = <<>>
    /\ acceptHistory = <<>>
    /\ ValidatorIdle
    /\ ListIdle
    /\ ScraperIdle
    /\ RaceIdle
    /\ JobIdle
    /\ RateIdle
    /\ DbIdle
    /\ ExtractIdle
    /\ ParamsIdle
    /\ HistIdle
    /\ PollIdle

\* lines 432-503: the handler of POST /accept.  A statement that throws ends the
\* handler with the response of the default error handler (500); the two INSERTs are
\* not in a transaction.
PostAccept ==
    /\ apc = "request"
    /\ apc' = "done"
    /\ LET job == FindJob(acceptBody.job_id, storedJob)
           cands == ParseResultJson(Val(job))
           found == CandidateAt(cands, acceptBody.candidate_index)
           total == cands[Val(found).pos].total_price
           pricingId == Len(acceptPricing) + 1
       IN  IF ~Truthy(acceptBody.job_id)
           THEN /\ acceptResponse' = Some("400 job_id required")
                /\ UNCHANGED <<acceptPricing, acceptHistory>>
           ELSE IF ActorMissing(acceptBody.actor)
           THEN /\ acceptResponse' = Some("400 actor is required")
                /\ UNCHANGED <<acceptPricing, acceptHistory>>
           ELSE \/ \* the SELECT of the job throws
                   /\ acceptResponse' = Some("500")
                   /\ UNCHANGED <<acceptPricing, acceptHistory>>
                \/ /\ job = None
                   /\ acceptResponse' = Some("404 Job not found")
                   /\ UNCHANGED <<acceptPricing, acceptHistory>>
                \/ /\ job # None
                   /\ found = None
                   /\ acceptResponse' = Some("400 Invalid candidate index")
                   /\ UNCHANGED <<acceptPricing, acceptHistory>>
                \/ \* the SELECT of the port alias or the INSERT into pricing throws;
                   \* it always does for a value without the candidate's fields, whose
                   \* parameters are undefined
                   /\ job # None
                   /\ found # None
                   /\ acceptResponse' = Some("500")
                   /\ UNCHANGED <<acceptPricing, acceptHistory>>
                \/ \* the INSERT into pricing_history throws
                   /\ job # None
                   /\ found # None
                   /\ Val(found).isCandidate
                   /\ acceptPricing' = Append(acceptPricing,
                          [ id |-> pricingId, total_price |-> total, source |-> "SCRAPE" ])
                   /\ acceptResponse' = Some("500")
                   /\ UNCHANGED acceptHistory
                \/ /\ job # None
                   /\ found # None
                   /\ Val(found).isCandidate
                   /\ acceptPricing' = Append(acceptPricing,
                          [ id |-> pricingId, total_price |-> total, source |-> "SCRAPE" ])
                   /\ acceptHistory' = Append(acceptHistory,
                          [ pricing_id |-> pricingId, price |-> total, action |-> "AGENT_ACCEPT",
                            actor |-> Val(acceptBody.actor) ])
                   /\ acceptResponse' = Some("SUCCESS")
    /\ UNCHANGED <<acceptBody, storedJob>>
    /\ UNCHANGED validatorVars
    /\ UNCHANGED listVars
    /\ UNCHANGED scraperVars
    /\ UNCHANGED raceVars
    /\ UNCHANGED jobVars
    /\ UNCHANGED rateVars
    /\ UNCHANGED dbVars
    /\ UNCHANGED extractVars
    /\ UNCHANGED paramVars
    /\ UNCHANGED histVars
    /\ UNCHANGED pollVars

\* the next request arrives
NextAcceptRequest ==
    /\ apc = "done"
    /\ Len(acceptPricing) < MaxAccepts
    /\ apc' = "request"
    /\ acceptBody' \in AcceptBodies
    /\ acceptResponse' = None
    /\ UNCHANGED <<storedJob, acceptPricing, acceptHistory>>
    /\ UNCHANGED validatorVars
    /\ UNCHANGED listVars
    /\ UNCHANGED scraperVars
    /\ UNCHANGED raceVars
    /\ UNCHANGED jobVars
    /\ UNCHANGED rateVars
    /\ UNCHANGED dbVars
    /\ UNCHANGED extractVars
    /\ UNCHANGED paramVars
    /\ UNCHANGED histVars
    /\ UNCHANGED pollVars

AcceptNext == PostAccept \/ NextAcceptRequest

SpecAccept == AcceptInit /\ [][AcceptNext]_vars

\* ---------------------------------------------------------------------------
\* Properties of POST /accept
\* ---------------------------------------------------------------------------

\* the request names the stored job and one of its candidates (a missing index counts
\* as index 0)
DenotesStoredCandidate ==
    /\ acceptBody.job_id = Some(1)
    /\ storedJob # None
    /\ IndexOrZero(acceptBody.candidate_index).kind = "number"
    /\ IndexOrZero(acceptBody.candidate_index).n + 1
           \in 1..Len(ParseResultJson(Val(storedJob)))

\* C39: a request without job_id or actor, for a job that does not exist, or whose
\* candidate_index denotes no stored candidate of the job leaves pricing and
\* pricing_history unchanged; a request answered with SUCCESS has inserted exactly one
\* pricing row and exactly one pricing_history row, with action AGENT_ACCEPT and the
\* actor of the request.
C39_AcceptWritesOnlyOnSuccess ==
    [][(apc = "request" /\ apc' = "done") =>
         /\ (\/ acceptBody.job_id = None
             \/ acceptBody.actor = None \/ acceptBody.actor = Some("")
             \/ FindJob(acceptBody.job_id, storedJob) = None
             \/ ~DenotesStoredCandidate)
               => /\ acceptPricing' = acceptPricing
                  /\ acceptHistory' = acceptHistory
                  /\ acceptResponse' # Some("SUCCESS")
         /\ acceptResponse' = Some("SUCCESS")
               => /\ Len(acceptPricing') = Len(acceptPricing) + 1
                  /\ SubSeq(acceptPricing', 1, Len(acceptPricing)) = acceptPricing
                  /\ Len(acceptHistory') = Len(acceptHistory) + 1
                  /\ SubSeq(acceptHistory', 1, Len(acceptHistory)) = acceptHistory
                  /\ acceptHistory'[Len(acceptHistory')].action = "AGENT_ACCEPT"
                  /\ acceptHistory'[Len(acceptHistory')].actor = Val(acceptBody.actor)
                  /\ acceptHistory'[Len(acceptHistory')].pricing_id
                        = acceptPricing'[Len(acceptPricing')].id]_vars

\* a second accept of the job has succeeded: two pricing rows, each with its
\* pricing_history row
C39_Witness ==
    /\ apc = "done"
    /\ acceptResponse = Some("SUCCESS")
    /\ Len(acceptPricing) = 2
    /\ Len(acceptHistory) = 2
    /\ acceptHistory[2].pricing_id = 2
    /\ acceptHistory[2].actor = "agent7"
    /\ acceptBody.candidate_index = Some(Index(1))

----------------------------------------------------------------------------
(* ScrapeFormModal: handleSubmit and the status poll it starts             *)

MAX_POLL_COUNT == 60    \* pollCount < 60

\* what triggerScrape settles with: the STARTED response with a job_id, another
\* response, an error response with status NO_RESULTS or FAILED, another error
TriggerOutcomes == { "STARTED", "OTHER", "ERROR_STATUS", "ERROR" }

\* what one getScrapeJob call settles with: the status of the job, or a rejection
JobReports == { "RUNNING", "SUCCESS", "FAILED", "error" }

PollInit ==
    /\ fpc = "form"
    /\ pollCount = 0
    /\ polls = 0
    /\ polling = FALSE
    /\ formError = None
    /\ onResultCalls = 0
    /\ lastJobStatus = None
    /\ ValidatorIdle
    /\ ListIdle
    /\ ScraperIdle
    /\ RaceIdle
    /\ JobIdle
    /\ RateIdle
    /\ DbIdle
    /\ ExtractIdle
    /\ ParamsIdle
    /\ HistIdle
    /\ AcceptIdle

\* lines 637-650: the submit handler up to the await of triggerScrape
handleSubmit ==
    /\ fpc = "form"
    /\ \/ \* validate() is false
          /\ fpc' = "stopped"
          /\ UNCHANGED formError
       \/ /\ fpc' = "trigger"
          /\ formError' = None
    /\ UNCHANGED <<pollCount, polls, polling, onResultCalls, lastJobStatus>>
    /\ UNCHANGED validatorVars
    /\ UNCHANGED listVars
    /\ UNCHANGED scraperVars
    /\ UNCHANGED raceVars
    /\ UNCHANGED jobVars
    /\ UNCHANGED rateVars
    /\ UNCHANGED dbVars
    /\ UNCHANGED extractVars
    /\ UNCHANGED paramVars
    /\ UNCHANGED histVars
    /\ UNCHANGED acceptVars

\* lines 650-694: triggerScrape settles; with a STARTED response the first poll() call
\* runs up to its await of getScrapeJob
TriggerSettles ==
    /\ fpc = "trigger"
    /\ \E settled \in TriggerOutcomes :
         CASE settled = "STARTED" ->
                /\ polling' = TRUE
                /\ pollCount' = 0
                /\ polls' = polls + 1
                /\ fpc' = "polling"
                /\ UNCHANGED <<formError, onResultCalls>>
           [] settled = "OTHER" ->
                /\ onResultCalls' = onResultCalls + 1
                /\ fpc' = "stopped"
                /\ \/ UNCHANGED formError
                   \/ \* onResult throws: the outer catch
                      formError' = Some("Unable to fetch rates.")
                /\ UNCHANGED <<polling, pollCount, polls>>
           [] settled = "ERROR_STATUS" ->
                /\ onResultCalls' = onResultCalls + 1
                /\ fpc' = "stopped"
                /\ UNCHANGED <<formError, polling, pollCount, polls>>
           [] settled = "ERROR" ->
                /\ formError' = Some("Unable to fetch rates.")
                /\ fpc' = "stopped"
                /\ UNCHANGED <<onResultCalls, polling, pollCount, polls>>
    /\ UNCHANGED lastJobStatus
    /\ UNCHANGED validatorVars
    /\ UNCHANGED listVars
    /\ UNCHANGED scraperVars
    /\ UNCHANGED raceVars
    /\ UNCHANGED jobVars
    /\ UNCHANGED rateVars
    /\ UNCHANGED dbVars
    /\ UNCHANGED extractVars
    /\ UNCHANGED paramVars
    /\ UNCHANGED histVars
    /\ UNCHANGED acceptVars

\* variant: after a SUCCESS or FAILED report the poll goes on while pollCount allows
PollSettlesKeepsPolling ==
    /\ fpc = "polling"
    /\ \E settled \in JobReports :
         /\ lastJobStatus' = Some(settled)
         /\ IF settled = "error"
            THEN \* getScrapeJob rejects: the catch of the poll
                 /\ polling' = FALSE
                 /\ formError' = Some("Error fetching job status.")
                 /\ fpc' = "stopped"
                 /\ UNCHANGED <<pollCount, onResultCalls>>
            ELSE IF settled \in { "SUCCESS", "FAILED" }
            THEN /\ polling' = FALSE
                 /\ onResultCalls' = onResultCalls + 1
                 /\ \/ UNCHANGED formError
                    \/ \* onResult throws: the catch of the poll
                       formError' = Some("Error fetching job status.")
                 /\ IF pollCount < MAX_POLL_COUNT
                    THEN pollCount' = pollCount + 1 /\ fpc' = "timer"
                    ELSE fpc' = "stopped" /\ UNCHANGED pollCount
            ELSE IF pollCount < MAX_POLL_COUNT
            THEN /\ pollCount' = pollCount + 1
                 /\ fpc' = "timer"
                 /\ UNCHANGED <<polling, formError, onResultCalls>>
            ELSE /\ polling' = FALSE
                 /\ formError' = Some("Timed out waiting for Maersk rates.")
                 /\ fpc' = "stopped"
                 /\ UNCHANGED <<pollCount, onResultCalls>>
    /\ UNCHANGED polls
    /\ UNCHANGED validatorVars
    /\ UNCHANGED listVars
    /\ UNCHANGED scraperVars
    /\ UNCHANGED raceVars
    /\ UNCHANGED jobVars
    /\ UNCHANGED rateVars
    /\ UNCHANGED dbVars
    /\ UNCHANGED extractVars
    /\ UNCHANGED paramVars
    /\ UNCHANGED histVars
    /\ UNCHANGED acceptVars

\* lines 656-672: the getScrapeJob call of a poll settles and the poll runs to its end
PollSettles ==
    /\ fpc = "polling"
    /\ \E settled \in JobReports :
         /\ lastJobStatus' = Some(settled)
         /\ IF settled = "error"
            THEN \* getScrapeJob rejects: the catch of the poll
                 /\ polling' = FALSE
                 /\ formError' = Some("Error fetching job status.")
                 /\ fpc' = "stopped"
                 /\ UNCHANGED <<pollCount, onResultCalls>>
            ELSE IF settled \in { "SUCCESS", "FAILED" }
            THEN /\ polling' = FALSE
                 /\ onResultCalls' = onResultCalls + 1
                 /\ \/ UNCHANGED formError
                    \/ \* onResult throws: the catch of the poll
                       formError' = Some("Error fetching job status.")
                 /\ fpc' = "stopped"
                 /\ UNCHANGED pollCount
            ELSE IF pollCount < MAX_POLL_COUNT
            THEN /\ pollCount' = pollCount + 1
                 /\ fpc' = "timer"
                 /\ UNCHANGED <<polling, formError, onResultCalls>>
            ELSE /\ polling' = FALSE
                 /\ formError' = Some("Timed out waiting for Maersk rates.")
                 /\ fpc' = "stopped"
                 /\ UNCHANGED <<pollCount, onResultCalls>>
    /\ UNCHANGED polls
    /\ UNCHANGED validatorVars
    /\ UNCHANGED listVars
    /\ UNCHANGED scraperVars
    /\ UNCHANGED raceVars
    /\ UNCHANGED jobVars
    /\ UNCHANGED rateVars
    /\ UNCHANGED dbVars
    /\ UNCHANGED extractVars
    /\ UNCHANGED paramVars
    /\ UNCHANGED histVars
    /\ UNCHANGED acceptVars

\* line 663: the timer set by the poll fires and poll() runs up to its await
TimerFires ==
    /\ fpc = "timer"
    /\ polls' = polls + 1
    /\ fpc' = "polling"
    /\ UNCHANGED <<pollCount, polling, formError, onResultCalls, lastJobStatus>>
    /\ UNCHANGED validatorVars
    /\ UNCHANGED listVars
    /\ UNCHANGED scraperVars
    /\ UNCHANGED raceVars
    /\ UNCHANGED jobVars
    /\ UNCHANGED rateVars
    /\ UNCHANGED dbVars
    /\ UNCHANGED extractVars
    /\ UNCHANGED paramVars
    /\ UNCHANGED histVars
    /\ UNCHANGED acceptVars

PollNext == handleSubmit \/ TriggerSettles \/ PollSettles \/ TimerFires

SpecPoll == PollInit /\ [][PollNext]_vars

\* every request settles and every timer fires
SpecPollLive ==
    /\ PollInit
    /\ [][PollNext]_vars
    /\ WF_vars(TriggerSettles)
    /\ WF_vars(PollSettles)
    /\ WF_vars(TimerFires)

\* ---------------------------------------------------------------------------
\* Properties of the status poll
\* ---------------------------------------------------------------------------

====
